---- MODULE Spec2Model ----
(***************************************************************************)
(* Model of the source-unification core of proyecto_chatbots               *)
(* (SRC/limpieza): numeric cleaning, nutrition standardisation, the        *)
(* source transformers, the unified-product validator and the              *)
(* multi-source unifier.                                                   *)
(*                                                                         *)
(* Python values are modelled as records of one shape                      *)
(*   [t : type tag, s : characters of a str, n : mantissa, e : decimals]   *)
(* A str is the sequence of its characters.  A float is the decimal        *)
(* n * 10^(-e), normalised so that equal numbers are equal records.  A     *)
(* dict is a function whose DOMAIN is the set of keys present.             *)
(***************************************************************************)
EXTENDS Integers, Sequences, FiniteSets, TLC

VARIABLES
    value,              \* clean_numeric_value: the argument
    cn_result,          \* clean_numeric_value: the outcome ("pending" before the call)
    nutrition_dict,     \* standardize_nutrition: first argument
    source,             \* standardize_nutrition: source tag
    sn_result,          \* standardize_nutrition: the outcome
    product,            \* validate_unified_product: the argument
    vp_result,          \* validate_unified_product: the outcome
    alcampo_data,       \* unify_products_from_sources: first argument
    openfood_data,      \* unify_products_from_sources: second argument
    openfood_products,  \* unify_products_from_sources: the OFF payload selected
    unified_products,   \* unify_products_from_sources: the accumulated output
    idx,                \* unify_products_from_sources: enumerate() index (1-based)
    pc,                 \* unify_products_from_sources: position in the function
    weight_str,         \* parse_weight_volume: the argument
    wv_result,          \* parse_weight_volume: the outcome
    df,                 \* the table (pandas DataFrame) a stage works on
    possible_cols,      \* safe_consolidate_columns: the candidate columns, in order
    sc_result,          \* safe_consolidate_columns: the Series being built (result)
    col,                \* safe_consolidate_columns: candidates done (loop position)
    df0,                \* the table as it was when the stage was called
    imp_col,            \* impute_missing_values: position in NUTRITION_COLS (0: not called)
    imp_source,         \* impute_missing_values: sources of the column already done
    row,                \* calculate_nutriscore: the argument
    score,              \* calculate_nutriscore: the local score after the seven terms
    ns_result,          \* calculate_nutriscore: the value returned
    pl_pc,              \* prepare_ml_features_pipeline: position in the function
    stages,             \* prepare_ml_features_pipeline: the stages run so far, in order
    dv_pc,              \* DataValidator.validate_all within PreprocessingPipeline.run: position
    validation_report,  \* validate_all: the report being filled
    fe_df,              \* run: the table passed to create_all_features
    fe_pc,              \* FeatureEngineer.create_all_features: position in the method
    fe_call,            \* create_all_features: which application is running (1, 2)
    cl_pc,              \* DataCleaner.clean_all: position in the method
    cleaning_report,    \* clean_all: the report being filled
    main_pc,            \* limpieza main(): position in the function
    main_env,           \* main(): the files found, what the loaders and stages do
    calls,              \* main(): the functions called so far, in order
    exit_status         \* main(): the process exit status (-1 while running)

vars == <<value, cn_result, nutrition_dict, source, sn_result, product, vp_result,
          alcampo_data, openfood_data, openfood_products, unified_products, idx, pc,
          weight_str, wv_result, df, possible_cols, sc_result, col,
          df0, imp_col, imp_source, row, score, ns_result, pl_pc, stages,
          dv_pc, validation_report, fe_df, fe_pc, fe_call, cl_pc, cleaning_report,
          main_pc, main_env, calls, exit_status>>

\* the variables of the pure-function calls
pure_vars == <<value, cn_result, nutrition_dict, source, sn_result, product, vp_result>>

\* the variables of unify_products_from_sources
unify_vars ==
    <<alcampo_data, openfood_data, openfood_products, unified_products, idx, pc>>

\* the variables of parse_weight_volume
weight_vars == <<weight_str, wv_result>>

\* the variables of safe_consolidate_columns
consolidate_vars == <<possible_cols, sc_result, col>>

\* the loop variables of impute_missing_values
impute_vars == <<imp_col, imp_source>>

\* the variables of calculate_nutriscore
score_vars == <<row, score, ns_result>>

\* the variables of prepare_ml_features_pipeline
pipeline_vars == <<pl_pc, stages>>

\* the variables of the validation stage
validator_vars == <<dv_pc, validation_report, fe_df>>

\* the variables of the field extractors and of the table stages
\* the variables of the feature engineering, the cleaner and main()
feature_vars == <<fe_pc, fe_call>>
cleaner_vars == <<cl_pc, cleaning_report>>
main_vars == <<main_pc, main_env, calls, exit_status>>
ext_vars == <<feature_vars, cleaner_vars, main_vars>>

stage_vars ==
    <<weight_vars, df, consolidate_vars, df0, impute_vars, score_vars, pipeline_vars,
      validator_vars, ext_vars>>

----------------------------------------------------------------------------
(* Bounds of the model *)

\* longest string enumerated exhaustively as clean_numeric_value input
MaxStrLen == 4
\* most records in one source list
MaxRecs == 2

----------------------------------------------------------------------------
(* Python values *)

PyNone == [t |-> "none", s |-> <<>>, n |-> 0, e |-> 0]
PyStr(chars) == [t |-> "str", s |-> chars, n |-> 0, e |-> 0]
PyInt(k) == [t |-> "int", s |-> <<>>, n |-> k, e |-> 0]
\* an int whose magnitude exceeds the largest double (for example 10**400)
PyHugeInt == [t |-> "hugeint", s |-> <<>>, n |-> 1, e |-> 0]
PyNaN == [t |-> "nan", s |-> <<>>, n |-> 0, e |-> 0]
\* the outcome of a call that raised an exception
Raised == [t |-> "raise", s |-> <<>>, n |-> 0, e |-> 0]
\* the outcome slot before the call has run
Pending == [t |-> "pending", s |-> <<>>, n |-> 0, e |-> 0]

RECURSIVE NormDec(_, _)
NormDec(m, e) ==
    IF e > 0 /\ m % 10 = 0 THEN NormDec(m \div 10, e - 1) ELSE <<m, e>>

\* the float  m * 10^(-e)
PyFloat(m, e) ==
    LET d == NormDec(m, e) IN [t |-> "float", s |-> <<>>, n |-> d[1], e |-> d[2]]

----------------------------------------------------------------------------
(* str methods and the regular expressions the code uses *)

Digits == {"0", "1", "2", "3", "4", "5", "6", "7", "8", "9"}
Whitespace == {" "}

DigitVal(c) ==
    CASE c = "0" -> 0 [] c = "1" -> 1 [] c = "2" -> 2 [] c = "3" -> 3 [] c = "4" -> 4
      [] c = "5" -> 5 [] c = "6" -> 6 [] c = "7" -> 7 [] c = "8" -> 8 [] c = "9" -> 9

LowerChar(c) ==
    CASE c = "K" -> "k" [] c = "J" -> "j" [] c = "G" -> "g" [] c = "C" -> "c"
      [] c = "L" -> "l" [] c = "M" -> "m" [] c = "X" -> "x" [] c = "A" -> "a"
      [] c = "R" -> "r" [] c = "P" -> "p" [] c = "D" -> "d" [] c = "E" -> "e"
      [] c = "N" -> "n" [] c = "O" -> "o" [] c = "S" -> "s"
      [] OTHER -> c

\* str.lower()
RECURSIVE Lower(_)
Lower(s) == IF s = <<>> THEN <<>> ELSE <<LowerChar(Head(s))>> \o Lower(Tail(s))

RECURSIVE LStrip(_)
LStrip(s) == IF s # <<>> /\ Head(s) \in Whitespace THEN LStrip(Tail(s)) ELSE s

RECURSIVE RStrip(_)
RStrip(s) ==
    IF s # <<>> /\ s[Len(s)] \in Whitespace THEN RStrip(SubSeq(s, 1, Len(s) - 1)) ELSE s

\* str.strip()
Strip(s) == RStrip(LStrip(s))

\* s.startswith(p, i - 1)
StartsAt(s, p, i) ==
    /\ i + Len(p) - 1 <= Len(s)
    /\ \A k \in 1..Len(p) : s[i + k - 1] = p[k]

RECURSIVE ReplaceFrom(_, _, _, _)
ReplaceFrom(s, old, new, i) ==
    IF i > Len(s) THEN <<>>
    ELSE IF StartsAt(s, old, i) THEN new \o ReplaceFrom(s, old, new, i + Len(old))
    ELSE <<s[i]>> \o ReplaceFrom(s, old, new, i + 1)

\* str.replace(old, new) for a non-empty old: left to right, non-overlapping
Replace(s, old, new) == ReplaceFrom(s, old, new, 1)

\* the end of the maximal run of characters of class cls starting at i (i - 1 if none)
RECURSIVE RunEnd(_, _, _)
RunEnd(s, cls, i) ==
    IF i <= Len(s) /\ s[i] \in cls THEN RunEnd(s, cls, i + 1) ELSE i - 1

\* re.match of  [-+]?\d*\.?\d+  at position i: the end of the match, or 0
NumberMatchAt(s, i) ==
    LET j == IF i <= Len(s) /\ s[i] \in {"-", "+"} THEN i + 1 ELSE i
        k == RunEnd(s, Digits, j) + 1
    IN  IF k + 1 <= Len(s) /\ s[k] = "." /\ s[k + 1] \in Digits
        THEN RunEnd(s, Digits, k + 1)
        ELSE IF k > j THEN k - 1 ELSE 0

RECURSIVE NumberSearchFrom(_, _)
NumberSearchFrom(s, i) ==
    IF i > Len(s) THEN <<>>
    ELSE IF NumberMatchAt(s, i) # 0 THEN SubSeq(s, i, NumberMatchAt(s, i))
    ELSE NumberSearchFrom(s, i + 1)

\* re.search(r"[-+]?\d*\.?\d+", s).group(), or <<>> when there is no match
NumberSearch(s) == NumberSearchFrom(s, 1)

RECURSIVE DigitsVal(_)
DigitsVal(s) ==
    IF s = <<>> THEN 0 ELSE 10 * DigitsVal(SubSeq(s, 1, Len(s) - 1)) + DigitVal(s[Len(s)])

\* float(m) for a string m matched by the number pattern
FloatOfMatch(m) ==
    LET neg == m[1] = "-"
        body == IF m[1] \in {"-", "+"} THEN Tail(m) ELSE m
        nodot == SelectSeq(body, LAMBDA c : c # ".")
        dot == CHOOSE i \in 1..(Len(body) + 1) :
                   i = Len(body) + 1 \/ (body[i] = "." /\ \A k \in 1..(i - 1) : body[k] # ".")
        decimals == IF dot > Len(body) THEN 0 ELSE Len(body) - dot
        mag == DigitsVal(nodot)
    IN  PyFloat(IF neg THEN 0 - mag ELSE mag, decimals)

----------------------------------------------------------------------------
(* limpieza/constants.py *)

\* the one-character token '€' is written "EUR"
NUMERIC_CLEAN_TOKENS ==
    << <<"k", "c", "a", "l">>, <<"k", "j">>, <<"c", "a", "l">>, <<"g">>, <<"m", "g">>,
       <<"k", "g">>, <<"l">>, <<"m", "l">>, <<"c", "l">>, <<"EUR">>, <<"%">>, <<"x">> >>

----------------------------------------------------------------------------
(* limpieza/nutrition_parsers.py: clean_numeric_value *)

RECURSIVE StripTokensFrom(_, _)
StripTokensFrom(s, i) ==
    IF i > Len(NUMERIC_CLEAN_TOKENS) THEN s
    ELSE StripTokensFrom(Replace(s, NUMERIC_CLEAN_TOKENS[i], <<>>), i + 1)

\* lines 32-36: strip, lower, decimal comma to point, remove the unit tokens in order
NormalizeNumericText(s) ==
    StripTokensFrom(Replace(Lower(Strip(s)), <<",">>, <<".">>), 1)

clean_numeric_value(v) ==
    IF v.t \in {"none", "nan"} THEN PyNone
    ELSE IF v.t = "int" THEN PyFloat(v.n, 0)
    ELSE IF v.t = "hugeint" THEN Raised
    ELSE IF v.t = "float" THEN v
    ELSE LET m == NumberSearch(NormalizeNumericText(v.s))
         IN  IF m = <<>> THEN PyNone ELSE FloatOfMatch(m)

----------------------------------------------------------------------------
(* Python objects above the leaves: [t : type tag, d : dict contents, n : number] *)

ObjNone == [t |-> "none", d |-> <<>>, n |-> 0]
ObjDict(d) == [t |-> "dict", d |-> d, n |-> 0]
ObjInt(k) == [t |-> "int", d |-> <<>>, n |-> k]
\* a str or a list of length len, given by the keys k for which  k in obj  is true
ObjStr(has, len) == [t |-> "str", d |-> [k \in has |-> PyNone], n |-> len]
ObjList(has, len) == [t |-> "list", d |-> [k \in has |-> PyNone], n |-> len]

\* bool(obj)
Truthy(obj) ==
    CASE obj.t = "none" -> FALSE
      [] obj.t \in {"int", "str", "list"} -> obj.n # 0
      [] OTHER -> DOMAIN obj.d # {}

\* bool(v) for a leaf value
TruthyLeaf(v) ==
    CASE v.t = "none" -> FALSE
      [] v.t = "str" -> v.s # <<>>
      [] v.t \in {"int", "float"} -> v.n # 0
      [] OTHER -> TRUE

\* dict.get(k) with a leaf value
Get(d, k) == IF k \in DOMAIN d THEN d[k] ELSE PyNone
\* dict.get(k) with an object value
GetObj(d, k) == IF k \in DOMAIN d THEN d[k] ELSE ObjNone

\* outcome of a call: returned a value, or raised
Ret(v) == [status |-> "returned", val |-> v]
Exc == [status |-> "raised", val |-> <<>>]
NotRun == [status |-> "pending", val |-> <<>>]

----------------------------------------------------------------------------
(* limpieza/constants.py: the nutrition vocabulary *)

REQUIRED_FIELDS == <<"url", "titulo", "valores_nutricionales_100_g">>

NUTRITION_KEYS_STANDARD ==
    <<"energia_kj", "energia_kcal", "grasas_g", "grasas_saturadas_g", "hidratos_g",
      "azucares_g", "fibra_g", "proteinas_g", "sal_g">>

NutritionKeys == {NUTRITION_KEYS_STANDARD[i] : i \in 1..Len(NUTRITION_KEYS_STANDARD)}

ALCAMPO_NUTRITION_MAP ==
    [valor_energetico_kj |-> "energia_kj", valor_energetico_kcal |-> "energia_kcal",
     grasas_g |-> "grasas_g", grasas_saturadas_g |-> "grasas_saturadas_g",
     hidratos_g |-> "hidratos_g", azucares_g |-> "azucares_g",
     proteinas_g |-> "proteinas_g", sal_g |-> "sal_g"]

OPENFOOD_NUTRITION_MAP ==
    [grasas |-> "grasas_g", grasas_saturadas |-> "grasas_saturadas_g",
     hidratos |-> "hidratos_g", azucares |-> "azucares_g", fibra |-> "fibra_g",
     proteinas |-> "proteinas_g", sal |-> "sal_g"]

DEFAULT_NUTRITION == [k \in NutritionKeys |-> PyNone]

----------------------------------------------------------------------------
(* limpieza/nutrition_parsers.py: parse_energy_field *)

NumberChars == Digits \cup {".", ","}

\* re.search of  ([\d.,]+)\s*<unit>  from position i: group(1), or <<>> without a match
RECURSIVE UnitSearchFrom(_, _, _)
UnitSearchFrom(s, unit, i) ==
    IF i > Len(s) THEN <<>>
    ELSE IF s[i] \in NumberChars
              /\ StartsAt(s, unit, RunEnd(s, Whitespace, RunEnd(s, NumberChars, i) + 1) + 1)
         THEN SubSeq(s, i, RunEnd(s, NumberChars, i))
         ELSE UnitSearchFrom(s, unit, i + 1)

\* parse_energy_field reading the kcal figure only after a kJ figure was found
parse_energy_field_Coupled(energy_str) ==
    IF ~TruthyLeaf(energy_str) \/ energy_str.t # "str"
    THEN [energia_kj |-> PyNone, energia_kcal |-> PyNone]
    ELSE IF UnitSearchFrom(Lower(energy_str.s), <<"k", "j">>, 1) = <<>>
    THEN [energia_kj |-> PyNone, energia_kcal |-> PyNone]
    ELSE [energia_kj |->
              clean_numeric_value(PyStr(UnitSearchFrom(Lower(energy_str.s), <<"k", "j">>, 1))),
          energia_kcal |->
              IF UnitSearchFrom(Lower(energy_str.s), <<"k", "c", "a", "l">>, 1) = <<>>
              THEN PyNone
              ELSE clean_numeric_value(
                       PyStr(UnitSearchFrom(Lower(energy_str.s), <<"k", "c", "a", "l">>, 1)))]

parse_energy_field(energy_str) ==
    IF ~TruthyLeaf(energy_str) \/ energy_str.t # "str"
    THEN [energia_kj |-> PyNone, energia_kcal |-> PyNone]
    ELSE LET energy_lower == Lower(energy_str.s)
             kj_match == UnitSearchFrom(energy_lower, <<"k", "j">>, 1)
             kcal_match == UnitSearchFrom(energy_lower, <<"k", "c", "a", "l">>, 1)
         IN  [energia_kj |-> IF kj_match = <<>> THEN PyNone
                             ELSE clean_numeric_value(PyStr(kj_match)),
              energia_kcal |-> IF kcal_match = <<>> THEN PyNone
                               ELSE clean_numeric_value(PyStr(kcal_match))]

----------------------------------------------------------------------------
(* limpieza/nutrition_parsers.py: validate_nutrition_values, standardize_nutrition *)

\* validate_nutrition_values resetting when any (not every) populated value is 0.0
validate_nutrition_values_Any(nd) ==
    IF \E k \in DOMAIN nd : nd[k].t # "none" /\ nd[k].n = 0
    THEN [k \in DOMAIN nd |-> PyNone]
    ELSE nd

validate_nutrition_values(nd) ==
    LET non_null_values == {k \in DOMAIN nd : nd[k].t # "none"}
    IN  IF DOMAIN nd = {} THEN nd
        ELSE IF non_null_values # {} /\ \A k \in non_null_values : nd[k].n = 0
        THEN [k \in DOMAIN nd |-> PyNone]
        ELSE nd

\* line 118: the mapping table used for a container nd
SelectMapping(nd, src) ==
    IF "valor_energetico_kj" \in DOMAIN nd.d \/ src = "alcampo"
    THEN ALCAMPO_NUTRITION_MAP
    ELSE OPENFOOD_NUTRITION_MAP

\* lines 112-136: the nine-key result before validate_nutrition_values
MapNutrition(nd, src) ==
    IF ~Truthy(nd) THEN Ret(DEFAULT_NUTRITION)
    \* 'valor_energetico_kj' in nutrition_dict: TypeError unless a container
    ELSE IF nd.t \notin {"dict", "str", "list"} THEN Exc
    ELSE
      LET mapping == SelectMapping(nd, src)
          present == {k \in DOMAIN mapping : k \in DOMAIN nd.d}
          needs_item == present # {} \/ "energia" \in DOMAIN nd.d
          mapped == [tk \in {mapping[k] : k \in present} |->
                        clean_numeric_value(nd.d[CHOOSE k \in present : mapping[k] = tk])]
          energy == IF "energia" \in DOMAIN nd.d /\ nd.d["energia"].t = "str"
                    THEN parse_energy_field(nd.d["energia"])
                    ELSE <<>>
          result == [k \in NutritionKeys |->
                        IF k \in DOMAIN energy THEN energy[k]
                        ELSE IF k \in DOMAIN mapped THEN mapped[k]
                        ELSE PyNone]
      IN  \* nutrition_dict[key] on a str or a list: TypeError
          IF nd.t # "dict" /\ needs_item THEN Exc
          ELSE IF \E tk \in DOMAIN mapped : mapped[tk] = Raised THEN Exc
          ELSE Ret(result)

standardize_nutrition(nd, src) ==
    LET mapped == MapNutrition(nd, src)
    IN  IF mapped.status = "raised" THEN Exc
        \* line 113 returns the default record without validating it
        ELSE IF ~Truthy(nd) THEN mapped
        ELSE Ret(validate_nutrition_values(mapped.val))

----------------------------------------------------------------------------
(* limpieza/validators.py *)

\* the unified product with every field None; of the optional fields the model keeps
\* precio_total (the others are filled after the required ones and never validated)
create_base_product ==
    [url |-> PyNone, titulo |-> PyNone, valores_nutricionales_100_g |-> ObjNone,
     precio_total |-> PyNone]

\* validate_unified_product testing  not product.get(field)  instead of  is None
validate_unified_product_Falsy(p) ==
    IF p.t # "dict" THEN FALSE
    ELSE IF \E i \in 1..Len(REQUIRED_FIELDS) :
                \/ REQUIRED_FIELDS[i] \notin DOMAIN p.d
                \/ p.d[REQUIRED_FIELDS[i]].t = "none"
                \/ /\ p.d[REQUIRED_FIELDS[i]].t = "str"
                   /\ "s" \in DOMAIN p.d[REQUIRED_FIELDS[i]]
                   /\ p.d[REQUIRED_FIELDS[i]].s = <<>>
                \/ /\ p.d[REQUIRED_FIELDS[i]].t = "dict"
                   /\ DOMAIN p.d[REQUIRED_FIELDS[i]].d = {}
    THEN FALSE
    ELSE p.d["valores_nutricionales_100_g"].t = "dict"

validate_unified_product(p) ==
    IF p.t # "dict" THEN FALSE
    ELSE IF \E i \in 1..Len(REQUIRED_FIELDS) :
                \/ REQUIRED_FIELDS[i] \notin DOMAIN p.d
                \/ p.d[REQUIRED_FIELDS[i]].t = "none"
    THEN FALSE
    ELSE p.d["valores_nutricionales_100_g"].t = "dict"

----------------------------------------------------------------------------
(* limpieza/field_extractors.py: clean_off_title *)

\* the separator ' – ' (the en dash is written "ENDASH")
TitleSeparator == <<" ", "ENDASH", " ">>

\* str.find(sep) + 1: first position where sep occurs, 0 if none
RECURSIVE FindFrom(_, _, _)
FindFrom(s, sep, i) ==
    IF i > Len(s) THEN 0
    ELSE IF StartsAt(s, sep, i) THEN i
    ELSE FindFrom(s, sep, i + 1)

clean_off_title(title) ==
    IF ~TruthyLeaf(title) THEN PyNone
    \* title.split on a value that is not a str: AttributeError
    ELSE IF title.t # "str" THEN Raised
    ELSE LET at == FindFrom(title.s, TitleSeparator, 1)
         IN  PyStr(Strip(IF at = 0 THEN title.s ELSE SubSeq(title.s, 1, at - 1)))

----------------------------------------------------------------------------
(* limpieza/field_extractors.py: parse_weight_volume *)

\* a Python list of values: the items are kept in field s
PyList(items) == [t |-> "list", s |-> items, n |-> 0, e |-> 0]

\* the list [value, unit] the function returns: the float in n and e, the unit in s
PyPair(v, unit) == [t |-> "pair", s |-> unit, n |-> v.n, e |-> v.e]

RECURSIVE IntChars(_)
IntChars(k) ==
    IF k < 10 THEN <<CHOOSE c \in Digits : DigitVal(c) = k>>
    ELSE IntChars(k \div 10) \o IntChars(k % 10)

\* str(v) of a str or of a non-negative int
StrOf(v) == IF v.t = "str" THEN v.s ELSE IntChars(v.n)

\* value *= k
Times(v, k) == PyFloat(v.n * k, v.e)

\* the unit letters  [m]?[lgk]+  or  [c]?[l]  (case already folded)
IsUnitText(u) ==
    \/ /\ Len(u) >= 1
       /\ \E from \in {1, 2} :
              /\ from <= Len(u)
              /\ from = 2 => u[1] = "m"
              /\ \A i \in from..Len(u) : u[i] \in {"l", "g", "k"}
    \/ u \in {<<"c", "l">>, <<"l">>}

\* the rest of the text after the unit matches  \.?\s*$
IsUnitTail(rest) ==
    \A i \in 1..Len(rest) : rest[i] \in Whitespace \/ (i = 1 /\ rest[i] = ".")

\* re.match(r'^\s*([\d.,]+)\s*([m]?[lgk]+|[c]?[l])\.?\s*$', w, re.IGNORECASE):
\* <<group(1), group(2)>>, or <<>> without a match
WeightMatch(w) ==
    LET from == RunEnd(w, Whitespace, 1) + 1
        g1 == RunEnd(w, NumberChars, from)
        u0 == RunEnd(w, Whitespace, g1 + 1) + 1
        ends == {j \in u0..Len(w) : /\ IsUnitText(Lower(SubSeq(w, u0, j)))
                                    /\ IsUnitTail(SubSeq(w, j + 1, Len(w)))}
    IN  IF g1 < from \/ ends = {} THEN <<>>
        ELSE <<SubSeq(w, from, g1),
               SubSeq(w, u0, CHOOSE j \in ends : \A k \in ends : k <= j)>>

parse_weight_volume(w) ==
    IF w.t = "none" THEN Ret(PyNone)
    ELSE IF w.t = "list"
    THEN IF Len(w.s) >= 2
         THEN LET v == clean_numeric_value(w.s[1])
                  unit == w.s[2]
              IN  IF v = Raised THEN Exc
                  ELSE IF v # PyNone /\ unit # PyNone THEN Ret(PyPair(v, StrOf(unit)))
                  ELSE Ret(PyNone)
         ELSE Ret(PyNone)
    \* str() of a number holds no unit letter after its digits: the pattern fails
    ELSE IF w.t # "str" THEN Ret(PyNone)
    ELSE
      LET text == Strip(w.s)
          match == WeightMatch(text)
          v == clean_numeric_value(PyStr(match[1]))
          unit == Lower(match[2])
      IN  IF FindFrom(Lower(text), <<"r", "a", "n", "g", "o", " ", "d", "e", " ",
                                     "p", "e", "s", "o">>, 1) # 0 \/ text = <<>>
          THEN Ret(PyNone)
          ELSE IF match = <<>> THEN Ret(PyNone)
          ELSE IF v = PyNone THEN Ret(PyNone)
          ELSE IF unit = <<"k", "g">> THEN Ret(PyPair(Times(v, 1000), <<"g">>))
          ELSE IF unit = <<"l">> THEN Ret(PyPair(Times(v, 1000), <<"m", "l">>))
          ELSE IF unit = <<"c", "l">> THEN Ret(PyPair(Times(v, 10), <<"m", "l">>))
          ELSE Ret(PyPair(v, unit))

----------------------------------------------------------------------------
(* limpieza/transformers.py: the two source transformers *)

transform_alcampo_product(p) ==
    IF ~Truthy(p) \/ p.t # "dict" THEN Ret(ObjDict(create_base_product))
    ELSE LET nutr == standardize_nutrition(GetObj(p.d, "nutricion"), "alcampo")
             precio == clean_numeric_value(Get(p.d, "precio"))
         IN  IF nutr.status = "raised" \/ precio = Raised THEN Exc
             ELSE Ret(ObjDict([url |-> Get(p.d, "url"),
                               titulo |-> Get(p.d, "nombre"),
                               valores_nutricionales_100_g |-> ObjDict(nutr.val),
                               precio_total |-> precio]))

transform_openfood_product(p) ==
    IF ~Truthy(p) \/ p.t # "dict" THEN Ret(ObjDict(create_base_product))
    ELSE LET titulo == clean_off_title(Get(p.d, "titulo"))
             nutr == standardize_nutrition(GetObj(p.d, "valores_nutricionales_100_g"),
                                           "openfoodfacts")
         IN  IF titulo = Raised \/ nutr.status = "raised" THEN Exc
             ELSE Ret(ObjDict([url |-> Get(p.d, "URL"),
                               titulo |-> titulo,
                               valores_nutricionales_100_g |-> ObjDict(nutr.val),
                               precio_total |-> PyNone]))

----------------------------------------------------------------------------
(* limpieza/transformers.py: unify_products_from_sources *)

\* a top-level argument: [t : type tag, items : elements when iterated, n : number,
\*                        d : dict contents]
DataNone == [t |-> "none", items |-> <<>>, n |-> 0, d |-> <<>>]
DataList(items) == [t |-> "list", items |-> items, n |-> 0, d |-> <<>>]
DataInt(k) == [t |-> "int", items |-> <<>>, n |-> k, d |-> <<>>]
\* a str: iterating it yields its characters, each a str
DataStr(len) ==
    [t |-> "str", items |-> [i \in 1..len |-> ObjStr({}, 1)], n |-> 0, d |-> <<>>]
DataDict(d) == [t |-> "dict", items |-> <<>>, n |-> 0, d |-> d]

\* bool(data)
TruthyData(data) ==
    CASE data.t = "none" -> FALSE
      [] data.t = "int" -> data.n # 0
      [] data.t = "dict" -> DOMAIN data.d # {}
      [] OTHER -> Len(data.items) # 0

\* the payload selection reading a dict as an unrecognised format
SelectOpenfoodProducts_ListOnly(data) ==
    IF data.t = "list" THEN data ELSE DataList(<<>>)

\* SelectOpenfoodProducts without the fallback to an empty list
SelectOpenfoodProducts_NoFallback(data) ==
    IF data.t = "dict" /\ "products" \in DOMAIN data.d THEN data.d["products"] ELSE data

\* lines 199-205: the OFF payload
SelectOpenfoodProducts(data) ==
    IF data.t = "dict" /\ "products" \in DOMAIN data.d THEN data.d["products"]
    ELSE IF data.t = "list" THEN data
    ELSE DataList(<<>>)

\* the elements  for ... in enumerate(data)  yields: a dict yields its keys
IterItems(data) ==
    IF data.t = "dict" THEN [i \in 1..Cardinality(DOMAIN data.d) |-> ObjStr({}, 1)]
    ELSE data.items

\* RecordStep with a product dropped when its url is already in the list
RecordStep_Dedup(out, outcome) ==
    IF outcome.status = "raised" \/ ~validate_unified_product(outcome.val)
          \/ \E i \in 1..Len(out) : out[i].d["url"] = outcome.val.d["url"]
    THEN [products |-> out, escaped |-> FALSE]
    ELSE [products |-> Append(out, outcome.val), escaped |-> FALSE]

\* RecordStep without the try/except: the transformer's exception leaves the function
RecordStep_NoTry(out, outcome) ==
    IF outcome.status = "raised"
    THEN [products |-> out, escaped |-> TRUE]
    ELSE IF validate_unified_product(outcome.val)
    THEN [products |-> Append(out, outcome.val), escaped |-> FALSE]
    ELSE [products |-> out, escaped |-> FALSE]

\* RecordStep appending whatever the transformer returned
RecordStep_NoValidate(out, outcome) ==
    IF outcome.status = "raised"
    THEN [products |-> out, escaped |-> FALSE]
    ELSE [products |-> Append(out, outcome.val), escaped |-> FALSE]

\* lines 186-193 and 211-218: the try block of a loop body, given the transformer's
\* outcome: the list afterwards, and whether an exception escaped the block
RecordStep(out, outcome) ==
    IF outcome.status = "raised"
    THEN [products |-> out, escaped |-> FALSE]      \* except Exception: log, go on
    ELSE IF validate_unified_product(outcome.val)
    THEN [products |-> Append(out, outcome.val), escaped |-> FALSE]
    ELSE [products |-> out, escaped |-> FALSE]

\* lines 185-193: the loop over alcampo_data from record i on
RECURSIVE AlcampoFrom(_, _, _)
AlcampoFrom(out, items, i) ==
    IF i > Len(items) THEN out
    ELSE AlcampoFrom(RecordStep(out, transform_alcampo_product(items[i])).products,
                     items, i + 1)

\* lines 210-218: the loop over openfood_products from record i on
RECURSIVE OpenfoodFrom(_, _, _)
OpenfoodFrom(out, items, i) ==
    IF i > Len(items) THEN out
    ELSE OpenfoodFrom(RecordStep(out, transform_openfood_product(items[i])).products,
                      items, i + 1)

\* lines 160-226: the whole call, the list returned or the exception of line 208
unify_products_from_sources(alcampo, openfood) ==
    IF /\ TruthyData(SelectOpenfoodProducts(openfood))
       /\ SelectOpenfoodProducts(openfood).t = "int"
    THEN Exc
    ELSE Ret(OpenfoodFrom(
                 IF TruthyData(alcampo) /\ alcampo.t = "list"
                 THEN AlcampoFrom(<<>>, alcampo.items, 1) ELSE <<>>,
                 IF TruthyData(SelectOpenfoodProducts(openfood))
                 THEN IterItems(SelectOpenfoodProducts(openfood)) ELSE <<>>, 1))

\* line 182
BeginAlcampo ==
    /\ pc = "start"
    /\ IF TruthyData(alcampo_data) /\ alcampo_data.t = "list"
       THEN pc' = "alcampo" /\ idx' = 1
       ELSE pc' = "select" /\ idx' = idx
    /\ UNCHANGED <<alcampo_data, openfood_data, openfood_products, unified_products>>
    /\ UNCHANGED pure_vars
    /\ UNCHANGED stage_vars

\* the loop body applied to the record at idx
AlcampoStep ==
    RecordStep(unified_products, transform_alcampo_product(alcampo_data.items[idx]))

\* lines 185-193: one iteration over alcampo_data
AlcampoRecord ==
    /\ pc = "alcampo"
    /\ unified_products' = AlcampoStep.products
    /\ IF AlcampoStep.escaped THEN idx' = 0 /\ pc' = "raised"
       ELSE IF idx < Len(alcampo_data.items) THEN idx' = idx + 1 /\ pc' = pc
       ELSE idx' = 0 /\ pc' = "select"
    /\ UNCHANGED <<alcampo_data, openfood_data, openfood_products>>
    /\ UNCHANGED pure_vars
    /\ UNCHANGED stage_vars

\* lines 199-208: choose the payload; len() of a truthy payload without a length raises
SelectOpenfood ==
    /\ pc = "select"
    /\ openfood_products' = SelectOpenfoodProducts(openfood_data)
    /\ IF ~TruthyData(openfood_products') THEN pc' = "done" /\ idx' = 0
       ELSE IF openfood_products'.t = "int" THEN pc' = "raised" /\ idx' = 0
       ELSE pc' = "openfood" /\ idx' = 1
    /\ UNCHANGED <<alcampo_data, openfood_data, unified_products>>
    /\ UNCHANGED pure_vars
    /\ UNCHANGED stage_vars

\* the loop body applied to the record at idx
OpenfoodStep ==
    RecordStep(unified_products, transform_openfood_product(IterItems(openfood_products)[idx]))

\* lines 210-218: one iteration over openfood_products
OpenfoodRecord ==
    /\ pc = "openfood"
    /\ unified_products' = OpenfoodStep.products
    /\ IF OpenfoodStep.escaped THEN idx' = 0 /\ pc' = "raised"
       ELSE IF idx < Len(IterItems(openfood_products)) THEN idx' = idx + 1 /\ pc' = pc
       ELSE idx' = 0 /\ pc' = "done"
    /\ UNCHANGED <<alcampo_data, openfood_data, openfood_products>>
    /\ UNCHANGED pure_vars
    /\ UNCHANGED stage_vars

----------------------------------------------------------------------------
(* pandas tables; limpieza/consolidate_features.py: safe_consolidate_columns *)

\* a DataFrame with a unique index: the column labels and the rows in index order,
\* each row a function from the column labels to cells
DataFrame(columns, rows) == [columns |-> columns, rows |-> rows]

\* pd.isna of a cell
IsNa(v) == v.t \in {"none", "nan"}

\* pd.Series([None] * len(df), index=df.index)
NoneSeries(table) == [r \in 1..Len(table.rows) |-> PyNone]

\* one candidate of the loop without the result.isna() half of the mask
ConsolidateStep_Overwrite(table, series, c) ==
    IF c \notin table.columns THEN series
    ELSE [r \in 1..Len(table.rows) |->
              IF ~IsNa(table.rows[r][c]) THEN table.rows[r][c] ELSE series[r]]

\* lines 17-19, one candidate: mask = result.isna() & df[col].notna();
\* result[mask] = df[col][mask]
ConsolidateStep(table, series, c) ==
    IF c \notin table.columns THEN series
    ELSE [r \in 1..Len(table.rows) |->
              IF IsNa(series[r]) /\ ~IsNa(table.rows[r][c]) THEN table.rows[r][c]
              ELSE series[r]]

\* one iteration of  for col in possible_cols
ConsolidateColumn ==
    /\ col < Len(possible_cols)
    /\ sc_result' = ConsolidateStep(df, sc_result, possible_cols[col + 1])
    /\ col' = col + 1
    /\ UNCHANGED <<df, possible_cols, weight_vars, pure_vars, unify_vars, df0,
                   impute_vars, score_vars, pipeline_vars, validator_vars, ext_vars>>

----------------------------------------------------------------------------
(* limpieza/impute_data.py: impute_missing_values *)

NUTRITION_COLS ==
    <<"energia_kcal", "energia_kj", "grasas_totales", "grasas_saturadas", "carbohidratos",
      "azucares", "proteinas", "sal", "fibra">>

RECURSIVE Pow10(_)
Pow10(k) == IF k = 0 THEN 1 ELSE 10 * Pow10(k - 1)

\* a <= b for two floats
FloatLeq(a, b) == a.n * Pow10(b.e) <= b.n * Pow10(a.e)

\* (a + b) / 2
FloatMean(a, b) ==
    PyFloat((a.n * Pow10(b.e) + b.n * Pow10(a.e)) * 5, a.e + b.e + 1)

RECURSIVE SortFloats(_)
SortFloats(vals) ==
    IF vals = <<>> THEN <<>>
    ELSE LET rest == SortFloats(Tail(vals))
             at == Cardinality({i \in 1..Len(rest) : ~FloatLeq(Head(vals), rest[i])})
         IN  SubSeq(rest, 1, at) \o <<Head(vals)>> \o SubSeq(rest, at + 1, Len(rest))

\* the non-null cells of column c in the rows of table selected by keep, in row order
RECURSIVE ColumnValues(_, _, _, _)
ColumnValues(table, c, keep, r) ==
    IF r > Len(table.rows) THEN <<>>
    ELSE (IF r \in keep /\ ~IsNa(table.rows[r][c]) THEN <<table.rows[r][c]>> ELSE <<>>)
         \o ColumnValues(table, c, keep, r + 1)

\* Series.median(): nulls skipped, NaN when nothing is left
Median(vals) ==
    LET sorted == SortFloats(vals)
        n == Len(sorted)
    IN  IF n = 0 THEN PyNaN
        ELSE IF n % 2 = 1 THEN sorted[(n + 1) \div 2]
        ELSE FloatMean(sorted[n \div 2], sorted[n \div 2 + 1])

\* df['source'].unique(): the distinct tags in order of first appearance
RECURSIVE UniqueSources(_, _)
UniqueSources(table, r) ==
    IF r = 0 THEN <<>>
    ELSE LET before == UniqueSources(table, r - 1)
         IN  IF \E i \in 1..Len(before) : before[i] = table.rows[r]["source"]
             THEN before
             ELSE Append(before, table.rows[r]["source"])

\* rows selected by  df['source'] == src  (a null tag equals nothing)
RowsOfSource(table, src) ==
    {r \in 1..Len(table.rows) : ~IsNa(src) /\ table.rows[r]["source"] = src}

AllRows(table) == 1..Len(table.rows)

\* df.loc[mask, c] = v
FillMasked(table, mask, c, v) ==
    [table EXCEPT !.rows =
        [r \in 1..Len(table.rows) |->
            IF r \in mask THEN [table.rows[r] EXCEPT ![c] = v] ELSE table.rows[r]]]

\* every non-null cell of the nutrient columns of the table, column after column
RECURSIVE NutrientValues(_, _)
NutrientValues(table, ci) ==
    IF ci > Len(NUTRITION_COLS) THEN <<>>
    ELSE (IF NUTRITION_COLS[ci] \in table.columns
          THEN ColumnValues(table, NUTRITION_COLS[ci], 1..Len(table.rows), 1)
          ELSE <<>>) \o NutrientValues(table, ci + 1)

\* the loop body without the 0.0 of line 23: an all-null column stays null
ImputeStep_NoZero(table, c, src) ==
    LET mask == {r \in RowsOfSource(table, src) : IsNa(table.rows[r][c])}
        median_value == Median(ColumnValues(table, c, RowsOfSource(table, src), 1))
        overall_median == Median(ColumnValues(table, c, AllRows(table), 1))
    IN  IF mask = {} THEN table
        ELSE IF ~IsNa(median_value) THEN FillMasked(table, mask, c, median_value)
        ELSE FillMasked(table, mask, c, overall_median)

\* the body of the source loop taking the fallback median over all nutrient columns
ImputeStep_AnyColumn(table, c, src) ==
    IF {r \in 1..Len(table.rows) :
           /\ ~IsNa(src) /\ table.rows[r]["source"] = src /\ IsNa(table.rows[r][c])} = {}
    THEN table
    ELSE [table EXCEPT !.rows =
             [r \in 1..Len(table.rows) |->
                 IF ~IsNa(src) /\ table.rows[r]["source"] = src /\ IsNa(table.rows[r][c])
                 THEN [table.rows[r] EXCEPT ![c] =
                          IF \E i \in 1..Len(table.rows) :
                                 table.rows[i]["source"] = src /\ ~IsNa(table.rows[i][c])
                          THEN Median(ColumnValues(table, c,
                                   {i \in 1..Len(table.rows) : table.rows[i]["source"] = src}, 1))
                          ELSE IF NutrientValues(table, 1) # <<>>
                          THEN Median(NutrientValues(table, 1))
                          ELSE PyFloat(0, 0)]
                 ELSE table.rows[r]]]

\* lines 16-23, the body of the source loop for column c and tag src
ImputeStep(table, c, src) ==
    LET mask == {r \in RowsOfSource(table, src) : IsNa(table.rows[r][c])}
        median_value == Median(ColumnValues(table, c, RowsOfSource(table, src), 1))
        overall_median == Median(ColumnValues(table, c, AllRows(table), 1))
    IN  IF mask = {} THEN table
        ELSE IF ~IsNa(median_value) THEN FillMasked(table, mask, c, median_value)
        ELSE FillMasked(table, mask, c,
                        IF ~IsNa(overall_median) THEN overall_median ELSE PyFloat(0, 0))

\* the whole function, from column ci and source si on
RECURSIVE ImputeFrom(_, _, _)
ImputeFrom(table, ci, si) ==
    IF ci > Len(NUTRITION_COLS) THEN table
    ELSE IF NUTRITION_COLS[ci] \notin table.columns THEN ImputeFrom(table, ci + 1, 1)
    ELSE IF si > Len(UniqueSources(table, Len(table.rows))) THEN ImputeFrom(table, ci + 1, 1)
    ELSE ImputeFrom(ImputeStep(table, NUTRITION_COLS[ci],
                               UniqueSources(table, Len(table.rows))[si]), ci, si + 1)

impute_missing_values(table) == ImputeFrom(table, 1, 1)

\* if col in df.columns: false, next column
ImputeSkipColumn ==
    /\ imp_col \in 1..Len(NUTRITION_COLS)
    /\ NUTRITION_COLS[imp_col] \notin df.columns
    /\ imp_col' = imp_col + 1
    /\ imp_source' = 0
    /\ UNCHANGED <<df, df0, weight_vars, pure_vars, unify_vars, consolidate_vars,
                   score_vars, pipeline_vars, validator_vars, ext_vars>>

\* one iteration of  for source in df['source'].unique()
ImputeSource ==
    /\ imp_col \in 1..Len(NUTRITION_COLS)
    /\ NUTRITION_COLS[imp_col] \in df.columns
    /\ imp_source < Len(UniqueSources(df, Len(df.rows)))
    /\ df' = ImputeStep(df, NUTRITION_COLS[imp_col],
                        UniqueSources(df, Len(df.rows))[imp_source + 1])
    /\ imp_source' = imp_source + 1
    /\ UNCHANGED <<imp_col, df0, weight_vars, pure_vars, unify_vars, consolidate_vars,
                   score_vars, pipeline_vars, validator_vars, ext_vars>>

\* the source loop of a column is exhausted: next column
ImputeNextColumn ==
    /\ imp_col \in 1..Len(NUTRITION_COLS)
    /\ NUTRITION_COLS[imp_col] \in df.columns
    /\ imp_source = Len(UniqueSources(df, Len(df.rows)))
    /\ imp_col' = imp_col + 1
    /\ imp_source' = 0
    /\ UNCHANGED <<df, df0, weight_vars, pure_vars, unify_vars, consolidate_vars,
                   score_vars, pipeline_vars, validator_vars, ext_vars>>

----------------------------------------------------------------------------
(* limpieza/score_nutricional.py: calculate_nutriscore *)

\* a - b
FloatSub(a, b) == PyFloat(a.n * Pow10(b.e) - b.n * Pow10(a.e), a.e + b.e)

\* a + b
FloatAdd(a, b) == PyFloat(a.n * Pow10(b.e) + b.n * Pow10(a.e), a.e + b.e)

\* a * (m * 10^(-e))
FloatScale(a, m, e) == PyFloat(a.n * m, a.e + e)

\* pd.notna(row[k]) and row[k] > limit
Above(r, k, limit) == ~IsNa(r[k]) /\ ~FloatLeq(r[k], limit)

\* (row[k] - limit) * (m * 10^(-e)) when the term applies, else 0.0
Term(r, k, limit, m, e) ==
    IF Above(r, k, limit) THEN FloatScale(FloatSub(r[k], limit), m, e) ELSE PyFloat(0, 0)

\* the seven terms with the salt penalty measured from 0 instead of 1.5
ScoreTerms_SaltFromZero(r) ==
    FloatAdd(FloatAdd(
    FloatSub(FloatSub(FloatSub(FloatSub(FloatSub(PyFloat(100, 0),
        Term(r, "energia_kcal", PyFloat(400, 0), 1, 1)),
        Term(r, "grasas_totales", PyFloat(20, 0), 2, 0)),
        Term(r, "grasas_saturadas", PyFloat(5, 0), 3, 0)),
        Term(r, "azucares", PyFloat(15, 0), 2, 0)),
        IF Above(r, "sal", PyFloat(15, 1)) THEN FloatScale(r["sal"], 10, 0) ELSE PyFloat(0, 0)),
        Term(r, "fibra", PyFloat(6, 0), 2, 0)),
        Term(r, "proteinas", PyFloat(10, 0), 15, 1))

\* lines 8-31: score = 100.0, five penalties, two bonuses
ScoreTerms(r) ==
    FloatAdd(FloatAdd(
    FloatSub(FloatSub(FloatSub(FloatSub(FloatSub(PyFloat(100, 0),
        Term(r, "energia_kcal", PyFloat(400, 0), 1, 1)),
        Term(r, "grasas_totales", PyFloat(20, 0), 2, 0)),
        Term(r, "grasas_saturadas", PyFloat(5, 0), 3, 0)),
        Term(r, "azucares", PyFloat(15, 0), 2, 0)),
        Term(r, "sal", PyFloat(15, 1), 10, 0)),
        Term(r, "fibra", PyFloat(6, 0), 2, 0)),
        Term(r, "proteinas", PyFloat(10, 0), 15, 1))

\* the return statement without the clamp
ClampScore_None(x) == x

\* line 33: max(0, min(100, score)); min and max return their first argument, the
\* int, unless the other one is strictly smaller (larger)
ClampScore(x) ==
    IF ~FloatLeq(PyFloat(100, 0), x)
    THEN (IF ~FloatLeq(x, PyFloat(0, 0)) THEN x ELSE PyInt(0))
    ELSE PyInt(100)

calculate_nutriscore(r) == ClampScore(ScoreTerms(r))

\* lines 8-31
NutriscoreTerms ==
    /\ row # <<>> /\ score = Pending
    /\ score' = ScoreTerms(row)
    /\ UNCHANGED <<row, ns_result, weight_vars, pure_vars, unify_vars, df, df0,
                   consolidate_vars, impute_vars, pipeline_vars, validator_vars, ext_vars>>

\* line 33
NutriscoreReturn ==
    /\ score # Pending /\ ns_result = Pending
    /\ ns_result' = ClampScore(score)
    /\ UNCHANGED <<row, score, weight_vars, pure_vars, unify_vars, df, df0,
                   consolidate_vars, impute_vars, pipeline_vars, validator_vars, ext_vars>>

----------------------------------------------------------------------------
(* limpieza/main.py: prepare_ml_features_pipeline and the stages it calls *)

\* df[name] = series
SetColumn(table, name, series) ==
    [columns |-> table.columns \cup {name},
     rows |-> [r \in 1..Len(table.rows) |->
                  [k \in table.columns \cup {name} |->
                      IF k = name THEN series[r] ELSE table.rows[r][k]]]]

\* the whole of safe_consolidate_columns, from candidate i on
RECURSIVE ConsolidateFrom(_, _, _, _)
ConsolidateFrom(table, series, possible, i) ==
    IF i > Len(possible) THEN series
    ELSE ConsolidateFrom(table, ConsolidateStep(table, series, possible[i]), possible, i + 1)

safe_consolidate_columns(table, possible) ==
    ConsolidateFrom(table, NoneSeries(table), possible, 1)

\* the candidate columns of each unified nutrient column.  limpieza/constants.py
\* defines no NUTRITION_MAPPING; the table is taken from the specification: one
\* candidate per canonical nutrient column, the column itself
NUTRITION_MAPPING == [i \in 1..Len(NUTRITION_COLS) |-> <<NUTRITION_COLS[i]>>]

\* consolidate_nutrition_columns, from entry i of the mapping on; <<>> when
\* clean_numeric_value raises on a cell
RECURSIVE ConsolidateNutritionFrom(_, _)
ConsolidateNutritionFrom(table, i) ==
    IF i > Len(NUTRITION_COLS) THEN table
    ELSE LET merged == safe_consolidate_columns(table, NUTRITION_MAPPING[i])
             cleaned == [r \in 1..Len(table.rows) |-> clean_numeric_value(merged[r])]
         IN  IF \E r \in 1..Len(table.rows) : cleaned[r] = Raised THEN <<>>
             ELSE ConsolidateNutritionFrom(SetColumn(table, NUTRITION_COLS[i], cleaned), i + 1)

consolidate_nutrition_columns(table) == ConsolidateNutritionFrom(table, 1)

\* df[c] = df[c].apply(clean_numeric_value) into column target, when c is a column
CleanInto(table, c, target) ==
    IF c \notin table.columns THEN table
    ELSE SetColumn(table, target,
                   [r \in 1..Len(table.rows) |-> clean_numeric_value(table.rows[r][c])])

\* consolidate_additional_features (the accented labels are written without accents);
\* <<>> when clean_numeric_value raises on a cell
consolidate_additional_features(table) ==
    LET t1 == SetColumn(table, "country",
                  safe_consolidate_columns(table,
                      <<"desc_paises de venta", "desc_country", "char_pais", "country">>))
        t2 == SetColumn(t1, "ingredients",
                  safe_consolidate_columns(t1,
                      <<"char_ingredientes", "desc_ingredientes", "nutr_ingredientes">>))
        t3 == SetColumn(t2, "serving_size",
                  safe_consolidate_columns(t2,
                      <<"char_porcion", "char_serving_size", "char_tamano porcion">>))
        t4 == CleanInto(t3, "price", "price_clean")
        t5 == CleanInto(t4, "weight_volume_clean", "weight_volume_clean")
    IN  IF \E r \in 1..Len(t5.rows) : \E c \in t5.columns : t5.rows[r][c] = Raised
        THEN <<>>
        ELSE t5

MIN_NUTRITION_COLS == 3

\* df[NUTRITION_COLS].notna().sum(axis=1) of row r
Completeness(table, r) ==
    Cardinality({i \in 1..Len(NUTRITION_COLS) : ~IsNa(table.rows[r][NUTRITION_COLS[i]])})

\* the rows of table selected by keep, in order
RECURSIVE SelectRows(_, _, _)
SelectRows(rows, keep, r) ==
    IF r > Len(rows) THEN <<>>
    ELSE (IF r \in keep THEN <<rows[r]>> ELSE <<>>) \o SelectRows(rows, keep, r + 1)

\* filter_ml_ready_products: the completeness column, then the rows that reach min_cols
filter_ml_ready_products(table) ==
    LET counted == SetColumn(table, "nutrition_completeness",
                       [r \in 1..Len(table.rows) |-> PyInt(Completeness(table, r))])
    IN  [counted EXCEPT !.rows =
            SelectRows(counted.rows,
                       {r \in 1..Len(table.rows) :
                           Completeness(table, r) >= MIN_NUTRITION_COLS}, 1)]

\* df['score_nutricional'] = df.apply(calculate_nutriscore, axis=1)
ScoreTable(table) ==
    SetColumn(table, "score_nutricional",
              [r \in 1..Len(table.rows) |-> calculate_nutriscore(table.rows[r])])

\* line 82: the columns of the final table
ml_cols ==
    {"source", "product_name", "brand", "weight_volume_clean", "country",
     "score_nutricional"} \cup {NUTRITION_COLS[i] : i \in 1..Len(NUTRITION_COLS)}

\* df[existing_cols].copy()
SelectColumns(table, keep) ==
    [columns |-> table.columns \cap keep,
     rows |-> [r \in 1..Len(table.rows) |->
                  [c \in table.columns \cap keep |-> table.rows[r][c]]]]

\* the order of the stages with the filter run before the imputation
StageAfter_FilterFirst(at) ==
    CASE at = "consolidate" -> "filter" [] at = "filter" -> "impute"
      [] at = "impute" -> "score" [] at = "score" -> "select" [] OTHER -> "done"

\* lines 68-89: the statement that follows each stage
StageAfter(at) ==
    CASE at = "consolidate" -> "impute" [] at = "impute" -> "filter"
      [] at = "filter" -> "score" [] at = "score" -> "select" [] OTHER -> "done"

\* lines 58-64: the empty table is returned as it is, a table without 'source' raises
PipelineEnter ==
    /\ pl_pc = "start"
    /\ pl_pc' = IF df.rows = <<>> THEN "done"
                ELSE IF "source" \notin df.columns THEN "raised"
                ELSE "consolidate"
    /\ UNCHANGED <<df, df0, stages, weight_vars, pure_vars, unify_vars, consolidate_vars,
                   impute_vars, score_vars, validator_vars, ext_vars>>

\* lines 69-70: consolidate_nutrition_columns, consolidate_additional_features
PipelineConsolidate ==
    /\ pl_pc = "consolidate"
    /\ stages' = Append(stages, "consolidation")
    /\ IF consolidate_nutrition_columns(df) = <<>>
       THEN pl_pc' = "raised" /\ df' = df
       ELSE IF consolidate_additional_features(consolidate_nutrition_columns(df)) = <<>>
       THEN pl_pc' = "raised" /\ df' = consolidate_nutrition_columns(df)
       ELSE /\ pl_pc' = StageAfter(pl_pc)
            /\ df' = consolidate_additional_features(consolidate_nutrition_columns(df))
    /\ UNCHANGED <<df0, weight_vars, pure_vars, unify_vars, consolidate_vars,
                   impute_vars, score_vars, validator_vars, ext_vars>>

\* line 73
PipelineImpute ==
    /\ pl_pc = "impute"
    /\ stages' = Append(stages, "imputation")
    /\ df' = impute_missing_values(df)
    /\ pl_pc' = StageAfter(pl_pc)
    /\ UNCHANGED <<df0, weight_vars, pure_vars, unify_vars, consolidate_vars,
                   impute_vars, score_vars, validator_vars, ext_vars>>

\* line 74
PipelineFilter ==
    /\ pl_pc = "filter"
    /\ stages' = Append(stages, "filter")
    /\ df' = filter_ml_ready_products(df)
    /\ pl_pc' = StageAfter(pl_pc)
    /\ UNCHANGED <<df0, weight_vars, pure_vars, unify_vars, consolidate_vars,
                   impute_vars, score_vars, validator_vars, ext_vars>>

\* lines 77-79.  On a table without rows DataFrame.apply returns a DataFrame, and
\* assigning it to one column raises or not with the pandas release
PipelineScore ==
    /\ pl_pc = "score"
    /\ stages' = Append(stages, "scoring")
    /\ \/ df' = ScoreTable(df) /\ pl_pc' = StageAfter(pl_pc)
       \/ df.rows = <<>> /\ df' = df /\ pl_pc' = "raised"
    /\ UNCHANGED <<df0, weight_vars, pure_vars, unify_vars, consolidate_vars,
                   impute_vars, score_vars, validator_vars, ext_vars>>

\* lines 82-89
PipelineSelect ==
    /\ pl_pc = "select"
    /\ df' = SelectColumns(df, ml_cols)
    /\ pl_pc' = StageAfter(pl_pc)
    /\ UNCHANGED <<df0, stages, weight_vars, pure_vars, unify_vars, consolidate_vars,
                   impute_vars, score_vars, validator_vars, ext_vars>>

----------------------------------------------------------------------------
(* preprocesamiento/validator.py: DataValidator, and its call in
   PreprocessingPipeline.run.  A method is its effect on the table it is given
   together with the report it returns: [table, report] *)

NUTRITIONAL_FIELDS ==
    <<"energia_kcal", "energia_kj", "grasas_totales", "grasas_saturadas", "carbohidratos",
      "azucares", "proteinas", "sal", "fibra">>

\* NUTRITIONAL_RANGES[c]
NUTRITIONAL_RANGES(c) ==
    CASE c = "energia_kcal" -> <<0, 900>>
      [] c = "energia_kj" -> <<0, 3800>>
      [] c = "sal" -> <<0, 50>>
      [] OTHER -> <<0, 100>>

OUTLIER_STD_THRESHOLD == 3

\* the number a cell holds; the validated tables hold whole numbers (e = 0), which
\* keeps the products and squares below within the integers of the checker
Units(v) == v.n

\* nutrition_cols: the nutritional fields the table has
NutritionFieldsOf(table) ==
    {NUTRITIONAL_FIELDS[i] : i \in 1..Len(NUTRITIONAL_FIELDS)} \cap table.columns

\* df[c].notna() & ((df[c] < min_val) | (df[c] > max_val))
RangeMask(table, c) ==
    {r \in AllRows(table) :
        /\ ~IsNa(table.rows[r][c])
        /\ \/ Units(table.rows[r][c]) < NUTRITIONAL_RANGES(c)[1]
           \/ Units(table.rows[r][c]) > NUTRITIONAL_RANGES(c)[2]}

\* lines 39-75: the report of validate_nutritional_ranges
RangeReport(table) ==
    LET failing == {c \in NutritionFieldsOf(table) : RangeMask(table, c) # {}}
    IN  [total_checked |-> Len(table.rows),
         products_with_errors |-> Cardinality(UNION {RangeMask(table, c) : c \in failing}),
         errors_by_field |->
             [c \in failing |-> [count |-> Cardinality(RangeMask(table, c)),
                                 expected_range |-> NUTRITIONAL_RANGES(c)]]]

validate_nutritional_ranges(table) == [table |-> table, report |-> RangeReport(table)]

\* values.sum()
RECURSIVE SumValues(_)
SumValues(vals) ==
    IF vals = <<>> THEN 0 ELSE Units(Head(vals)) + SumValues(Tail(vals))

\* len(values) * (values[i] - mean)
Deviation(vals, i) == Len(vals) * Units(vals[i]) - SumValues(vals)

RECURSIVE SquaredDeviations(_, _)
SquaredDeviations(vals, i) ==
    IF i > Len(vals) THEN 0
    ELSE Deviation(vals, i) * Deviation(vals, i) + SquaredDeviations(vals, i + 1)

\* lines 105-120: how many values of the column have |value - mean| / std above the
\* threshold, std the sample deviation; 0 when fewer than two values or std == 0
OutlierCount(vals) ==
    IF Len(vals) < 2 \/ SquaredDeviations(vals, 1) = 0 THEN 0
    ELSE Cardinality({i \in 1..Len(vals) :
             (Len(vals) - 1) * Deviation(vals, i) * Deviation(vals, i)
                 > OUTLIER_STD_THRESHOLD * OUTLIER_STD_THRESHOLD
                       * SquaredDeviations(vals, 1)})

OutliersIn(table, c) == OutlierCount(ColumnValues(table, c, AllRows(table), 1))

\* line 130, accumulated over the nutritional fields from field i on
RECURSIVE TotalOutliers(_, _)
TotalOutliers(table, i) ==
    IF i > Len(NUTRITIONAL_FIELDS) THEN 0
    ELSE (IF NUTRITIONAL_FIELDS[i] \in table.columns
          THEN OutliersIn(table, NUTRITIONAL_FIELDS[i]) ELSE 0)
         + TotalOutliers(table, i + 1)

\* lines 97-130: the report of detect_outliers (the rounded mean and std of an entry
\* are not kept)
OutliersReport(table) ==
    [outliers_by_field |->
         [c \in {k \in NutritionFieldsOf(table) : OutliersIn(table, k) > 0} |->
             [count |-> OutliersIn(table, c), threshold_z |-> OUTLIER_STD_THRESHOLD]],
     total_outliers |-> TotalOutliers(table, 1)]

detect_outliers(table) == [table |-> table, report |-> OutliersReport(table)]

\* df[a].notna() & df[b].notna() & (df[a] > df[b]), when the table has both columns
GreaterMask(table, a, b) ==
    IF a \in table.columns /\ b \in table.columns
    THEN {r \in AllRows(table) :
             /\ ~IsNa(table.rows[r][a]) /\ ~IsNa(table.rows[r][b])
             /\ Units(table.rows[r][a]) > Units(table.rows[r][b])}
    ELSE {}

\* KCAL_TO_KJ_FACTOR = 4.184, in thousandths
KCAL_TO_KJ_FACTOR == 4184
\* ENERGY_TOLERANCE = 0.10, as the divisor 1 / 0.10
ENERGY_TOLERANCE == 10

\* |actual_kj - expected_kj| in thousandths
EnergyGap(r) ==
    IF Units(r["energia_kj"]) * 1000 >= Units(r["energia_kcal"]) * KCAL_TO_KJ_FACTOR
    THEN Units(r["energia_kj"]) * 1000 - Units(r["energia_kcal"]) * KCAL_TO_KJ_FACTOR
    ELSE Units(r["energia_kcal"]) * KCAL_TO_KJ_FACTOR - Units(r["energia_kj"]) * 1000

\* lines 186-199: relative_diff > ENERGY_TOLERANCE among the rows with both energies
\* and energia_kcal > 0
EnergyMask(table) ==
    IF "energia_kcal" \in table.columns /\ "energia_kj" \in table.columns
    THEN {r \in AllRows(table) :
             /\ ~IsNa(table.rows[r]["energia_kcal"]) /\ ~IsNa(table.rows[r]["energia_kj"])
             /\ Units(table.rows[r]["energia_kcal"]) > 0
             /\ EnergyGap(table.rows[r]) * ENERGY_TOLERANCE
                    > Units(table.rows[r]["energia_kcal"]) * KCAL_TO_KJ_FACTOR}
    ELSE {}

macro_cols == {"grasas_totales", "carbohidratos", "proteinas", "fibra"}

\* what column c adds to df[available_macros].sum(axis=1) in row r (nulls are skipped)
MacroShare(table, r, c) ==
    IF c \in table.columns /\ ~IsNa(table.rows[r][c]) THEN Units(table.rows[r][c])
    ELSE 0

\* lines 208-214
MacroMask(table) ==
    IF Cardinality(macro_cols \cap table.columns) >= 2
    THEN {r \in AllRows(table) :
             MacroShare(table, r, "grasas_totales") + MacroShare(table, r, "carbohidratos")
                 + MacroShare(table, r, "proteinas") + MacroShare(table, r, "fibra")
                 > 100}
    ELSE {}

\* the entry appended to report["inconsistencies"] when count > 0
Inconsistency(type, mask) ==
    IF mask = {} THEN <<>> ELSE <<[type |-> type, count |-> Cardinality(mask)]>>

\* the mask of the total with the energy and macro-sum rules folded in
InconsistentMask_AllRules(table) ==
    GreaterMask(table, "grasas_saturadas", "grasas_totales")
        \cup GreaterMask(table, "azucares", "carbohidratos")
        \cup EnergyMask(table) \cup MacroMask(table)

\* lines 223-238: inconsistent_mask
InconsistentMask(table) ==
    GreaterMask(table, "grasas_saturadas", "grasas_totales")
        \cup GreaterMask(table, "azucares", "carbohidratos")

\* lines 152-240: the report of validate_consistency
ConsistencyReport(table) ==
    [inconsistencies |->
         Inconsistency("grasas_saturadas > grasas_totales",
                       GreaterMask(table, "grasas_saturadas", "grasas_totales"))
         \o Inconsistency("azucares > carbohidratos",
                          GreaterMask(table, "azucares", "carbohidratos"))
         \o Inconsistency("energia_kcal y energia_kj inconsistentes (>10.0%)",
                          EnergyMask(table))
         \o Inconsistency("suma_macronutrientes > 100g", MacroMask(table)),
     total_inconsistent_products |-> Cardinality(InconsistentMask(table))]

\* a validate_consistency that also removes the rows it counts
validate_consistency_Dropping(table) ==
    [table |-> [table EXCEPT !.rows =
                   SelectRows(table.rows, AllRows(table) \ InconsistentMask(table), 1)],
     report |-> ConsistencyReport(table)]

validate_consistency(table) == [table |-> table, report |-> ConsistencyReport(table)]

\* run line 132 and validate_all lines 262-267: the call, the empty report
ValidateAllEnter ==
    /\ dv_pc = "call"
    /\ validation_report' = [total_products |-> Len(df.rows), range_validation |-> <<>>,
                             outliers |-> <<>>, consistency |-> <<>>]
    /\ dv_pc' = "ranges"
    /\ UNCHANGED <<df, df0, fe_df, weight_vars, pure_vars, unify_vars, consolidate_vars,
                   impute_vars, score_vars, pipeline_vars, ext_vars>>

\* line 270
ValidateRanges ==
    /\ dv_pc = "ranges"
    /\ df' = validate_nutritional_ranges(df).table
    /\ validation_report' =
           [validation_report EXCEPT
               !.range_validation = validate_nutritional_ranges(df).report]
    /\ dv_pc' = "outliers"
    /\ UNCHANGED <<df0, fe_df, weight_vars, pure_vars, unify_vars, consolidate_vars,
                   impute_vars, score_vars, pipeline_vars, ext_vars>>

\* line 273
DetectOutliers ==
    /\ dv_pc = "outliers"
    /\ df' = detect_outliers(df).table
    /\ validation_report' =
           [validation_report EXCEPT !.outliers = detect_outliers(df).report]
    /\ dv_pc' = "consistency"
    /\ UNCHANGED <<df0, fe_df, weight_vars, pure_vars, unify_vars, consolidate_vars,
                   impute_vars, score_vars, pipeline_vars, ext_vars>>

\* line 276
ValidateConsistency ==
    /\ dv_pc = "consistency"
    /\ df' = validate_consistency(df).table
    /\ validation_report' =
           [validation_report EXCEPT !.consistency = validate_consistency(df).report]
    /\ dv_pc' = "return"
    /\ UNCHANGED <<df0, fe_df, weight_vars, pure_vars, unify_vars, consolidate_vars,
                   impute_vars, score_vars, pipeline_vars, ext_vars>>

\* line 280, run lines 132-141: the report goes to the statistics, df is not rebound
ValidateAllReturn ==
    /\ dv_pc = "return"
    /\ dv_pc' = "validated"
    /\ UNCHANGED <<df, df0, validation_report, fe_df, weight_vars, pure_vars, unify_vars,
                   consolidate_vars, impute_vars, score_vars, pipeline_vars, ext_vars>>

\* run lines 149-150: df is the argument of create_all_features
EnterFeatureEngineering ==
    /\ dv_pc = "validated"
    /\ fe_df' = df
    /\ dv_pc' = "features"
    /\ UNCHANGED <<df, df0, validation_report, weight_vars, pure_vars, unify_vars,
                   consolidate_vars, impute_vars, score_vars, pipeline_vars, ext_vars>>

----------------------------------------------------------------------------
(* limpieza/main.py: main().  main_env holds what the run meets: whether each input
   file exists, how many products each loader returns, and which of the calls
   raises an Exception *)

\* the statement after load_products with the check of line 149 left out
AfterLoad_Continue(n) == "pipeline"

\* lines 149-151: sys.exit(1) when no product was loaded
AfterLoad(n) == IF n = 0 THEN "exit" ELSE "pipeline"

\* lines 133-136: sys.exit(1) at the first input file that does not exist
MainCheckFiles ==
    /\ main_pc = "start"
    /\ IF main_env.alcampo_exists /\ main_env.openfood_exists
       THEN main_pc' = "load" /\ exit_status' = exit_status
       ELSE main_pc' = "exited" /\ exit_status' = 1
    /\ UNCHANGED <<main_env, calls, feature_vars, cleaner_vars, df, df0, weight_vars,
                   pure_vars, unify_vars, consolidate_vars, impute_vars, score_vars,
                   pipeline_vars, validator_vars>>

\* lines 147-151: load_products; an Exception goes to line 167, SystemExit leaves
MainLoad ==
    /\ main_pc = "load"
    /\ calls' = Append(calls, "load_products")
    /\ IF main_env.load_raises
          \/ AfterLoad(main_env.alcampo_count + main_env.openfood_count) = "exit"
       THEN main_pc' = "exited" /\ exit_status' = 1
       ELSE main_pc' = "pipeline" /\ exit_status' = exit_status
    /\ UNCHANGED <<main_env, feature_vars, cleaner_vars, df, df0, weight_vars,
                   pure_vars, unify_vars, consolidate_vars, impute_vars, score_vars,
                   pipeline_vars, validator_vars>>

\* lines 153-157
MainPipeline ==
    /\ main_pc = "pipeline"
    /\ calls' = Append(calls, "prepare_ml_features_pipeline")
    /\ IF main_env.pipeline_raises
       THEN main_pc' = "exited" /\ exit_status' = 1
       ELSE main_pc' = "save" /\ exit_status' = exit_status
    /\ UNCHANGED <<main_env, feature_vars, cleaner_vars, df, df0, weight_vars,
                   pure_vars, unify_vars, consolidate_vars, impute_vars, score_vars,
                   pipeline_vars, validator_vars>>

\* line 160
MainSave ==
    /\ main_pc = "save"
    /\ calls' = Append(calls, "save_to_csv")
    /\ IF main_env.save_raises
       THEN main_pc' = "exited" /\ exit_status' = 1
       ELSE main_pc' = "summary" /\ exit_status' = exit_status
    /\ UNCHANGED <<main_env, feature_vars, cleaner_vars, df, df0, weight_vars,
                   pure_vars, unify_vars, consolidate_vars, impute_vars, score_vars,
                   pipeline_vars, validator_vars>>

\* lines 163-169: print_summary, then main() returns and the process exits with 0
MainSummary ==
    /\ main_pc = "summary"
    /\ calls' = Append(calls, "print_summary")
    /\ main_pc' = "exited"
    /\ exit_status' = IF main_env.summary_raises THEN 1 ELSE 0
    /\ UNCHANGED <<main_env, feature_vars, cleaner_vars, df, df0, weight_vars,
                   pure_vars, unify_vars, consolidate_vars, impute_vars, score_vars,
                   pipeline_vars, validator_vars>>

----------------------------------------------------------------------------
(* preprocesamiento/cleaner.py: DataCleaner *)

MIN_REQUIRED_NUTRIENTS == 2

TEXT_FIELDS ==
    {"product_name", "descripcion", "country", "marcas", "tiendas", "nombre_operador"}

\* lines 219-223: dropna(subset=["product_name"], how="all") when the column exists
remove_empty_rows(table) ==
    IF "product_name" \notin table.columns THEN table
    ELSE [table EXCEPT !.rows =
             SelectRows(table.rows,
                        {r \in AllRows(table) : ~IsNa(table.rows[r]["product_name"])}, 1)]

\* two cells of the subset column that drop_duplicates takes as the same value
\* (missing values are one value)
SameKey(a, b) == (IsNa(a) /\ IsNa(b)) \/ a = b

\* drop_duplicates(subset=["url"], keep="last")
remove_duplicates_KeepLast(table) ==
    IF "url" \notin table.columns THEN table
    ELSE [table EXCEPT !.rows =
             SelectRows(table.rows,
                        {r \in AllRows(table) :
                            \A q \in (r + 1)..Len(table.rows) :
                                ~SameKey(table.rows[q]["url"], table.rows[r]["url"])}, 1)]

\* lines 35-36: drop_duplicates(subset=["url"], keep="first") when the column exists
remove_duplicates(table) ==
    IF "url" \notin table.columns THEN table
    ELSE [table EXCEPT !.rows =
             SelectRows(table.rows,
                        {r \in AllRows(table) :
                            \A q \in 1..(r - 1) :
                                ~SameKey(table.rows[q]["url"], table.rows[r]["url"])}, 1)]

\* line 78: df[nutrition_cols].notna().sum(axis=1) of row r
NutritionCount(table, r) ==
    Cardinality({c \in NutritionFieldsOf(table) : ~IsNa(table.rows[r][c])})

\* the filter returning the rows below the minimum with the valid ones
filter_insufficient_nutrition_KeepAll(table, min_nutrients) ==
    [valid |-> table,
     removed |-> [table EXCEPT !.rows =
                     SelectRows(table.rows,
                                {r \in AllRows(table) :
                                    NutritionCount(table, r) < min_nutrients}, 1)]]

\* lines 71-90: (df_valid, df_removed)
filter_insufficient_nutrition(table, min_nutrients) ==
    IF NutritionFieldsOf(table) = {}
    THEN [valid |-> table, removed |-> DataFrame({}, <<>>)]
    ELSE [valid |-> [table EXCEPT !.rows =
                        SelectRows(table.rows,
                                   {r \in AllRows(table) :
                                       NutritionCount(table, r) >= min_nutrients}, 1)],
          removed |-> [table EXCEPT !.rows =
                          SelectRows(table.rows,
                                     {r \in AllRows(table) :
                                         NutritionCount(table, r) < min_nutrients}, 1)]]

NanText == <<"n", "a", "n">>

\* astype(str) of a cell that is a str or NaN
AsText(v) == IF v.t = "str" THEN v.s ELSE NanText

\* re.sub(r'\s+', ' ', text)
RECURSIVE CollapseSpaces(_)
CollapseSpaces(s) ==
    IF Len(s) < 2 THEN s
    ELSE IF s[1] \in Whitespace /\ s[2] \in Whitespace THEN CollapseSpaces(Tail(s))
    ELSE <<s[1]>> \o CollapseSpaces(Tail(s))

\* lines 128-134
NormalizeText(text) == IF text = NanText THEN <<>> ELSE Strip(CollapseSpaces(text))

\* .replace("nan", pd.NA) of a str cell
NanToNa(text) == IF text = NanText THEN PyNaN ELSE PyStr(text)

\* df[c] = f(df[c]) cell by cell, for every column of fields the table has
MapColumns(table, fields, F(_)) ==
    [table EXCEPT !.rows =
        [r \in AllRows(table) |->
            [c \in table.columns |->
                IF c \in fields THEN F(table.rows[r][c]) ELSE table.rows[r][c]]]]

TextCell(v) == NanToNa(NormalizeText(AsText(v)))

\* lines 104-112
normalize_text_fields(table) == MapColumns(table, TEXT_FIELDS, TextCell)

\* pd.to_numeric(errors="coerce") of a cell: a number, the number a str spells, or NaN
ToNumeric(v) ==
    IF v.t = "float" THEN v
    ELSE IF v.t = "int" THEN PyFloat(v.n, 0)
    ELSE IF v.t = "str" /\ v.s # <<>> /\ NumberMatchAt(v.s, 1) = Len(v.s)
    THEN FloatOfMatch(v.s)
    ELSE PyNaN

UnitCell(v) == NanToNa(Strip(Lower(AsText(v))))

\* lines 148-162
clean_weight_volume(table) ==
    IF "weight_volume_clean" \notin table.columns \/ "weight_unit" \notin table.columns
    THEN table
    ELSE MapColumns(MapColumns(table, {"weight_volume_clean"}, ToNumeric),
                    {"weight_unit"}, UnitCell)

\* lines 187-198
clean_numeric_fields(table) ==
    MapColumns(table,
               {"precio_total", "precio_por_cantidad", "numero_raciones"}
                   \cup NutritionFieldsOf(table),
               ToNumeric)

\* the cleaning steps of clean_all in order, and what follows each
CleanAfter(at) ==
    CASE at = "empty" -> "duplicates" [] at = "duplicates" -> "nutrition"
      [] at = "nutrition" -> "text" [] at = "text" -> "weight"
      [] at = "weight" -> "numeric" [] at = "numeric" -> "return" [] OTHER -> "done"

\* lines 251-258
CleanEnter ==
    /\ cl_pc = "call"
    /\ cleaning_report' = [initial_count |-> Len(df.rows), duplicates_removed |-> 0,
                           insufficient_nutrition_removed |-> 0,
                           empty_rows_removed |-> 0, final_count |-> 0]
    /\ cl_pc' = "empty"
    /\ UNCHANGED <<df, df0, feature_vars, main_vars, weight_vars, pure_vars, unify_vars,
                   consolidate_vars, impute_vars, score_vars, pipeline_vars,
                   validator_vars>>

\* lines 261-263
CleanEmptyRows ==
    /\ cl_pc = "empty"
    /\ df' = remove_empty_rows(df)
    /\ cleaning_report' =
           [cleaning_report EXCEPT
               !.empty_rows_removed = Len(df.rows) - Len(remove_empty_rows(df).rows)]
    /\ cl_pc' = CleanAfter(cl_pc)
    /\ UNCHANGED <<df0, feature_vars, main_vars, weight_vars, pure_vars, unify_vars,
                   consolidate_vars, impute_vars, score_vars, pipeline_vars,
                   validator_vars>>

\* lines 266-268
CleanDuplicates ==
    /\ cl_pc = "duplicates"
    /\ df' = remove_duplicates(df)
    /\ cleaning_report' =
           [cleaning_report EXCEPT
               !.duplicates_removed = Len(df.rows) - Len(remove_duplicates(df).rows)]
    /\ cl_pc' = CleanAfter(cl_pc)
    /\ UNCHANGED <<df0, feature_vars, main_vars, weight_vars, pure_vars, unify_vars,
                   consolidate_vars, impute_vars, score_vars, pipeline_vars,
                   validator_vars>>

\* lines 271-273
CleanNutrition ==
    /\ cl_pc = "nutrition"
    /\ df' = filter_insufficient_nutrition(df, MIN_REQUIRED_NUTRIENTS).valid
    /\ cleaning_report' =
           [cleaning_report EXCEPT
               !.insufficient_nutrition_removed =
                   Len(filter_insufficient_nutrition(df, MIN_REQUIRED_NUTRIENTS).removed.rows)]
    /\ cl_pc' = CleanAfter(cl_pc)
    /\ UNCHANGED <<df0, feature_vars, main_vars, weight_vars, pure_vars, unify_vars,
                   consolidate_vars, impute_vars, score_vars, pipeline_vars,
                   validator_vars>>

\* lines 276-282: one of the three steps that rewrite cells
CleanCells ==
    /\ cl_pc \in {"text", "weight", "numeric"}
    /\ df' = CASE cl_pc = "text" -> normalize_text_fields(df)
               [] cl_pc = "weight" -> clean_weight_volume(df)
               [] cl_pc = "numeric" -> clean_numeric_fields(df)
    /\ cl_pc' = CleanAfter(cl_pc)
    /\ UNCHANGED <<df0, cleaning_report, feature_vars, main_vars, weight_vars, pure_vars,
                   unify_vars, consolidate_vars, impute_vars, score_vars, pipeline_vars,
                   validator_vars>>

\* lines 284-293
CleanReturn ==
    /\ cl_pc = "return"
    /\ cleaning_report' = [cleaning_report EXCEPT !.final_count = Len(df.rows)]
    /\ cl_pc' = CleanAfter(cl_pc)
    /\ UNCHANGED <<df, df0, feature_vars, main_vars, weight_vars, pure_vars, unify_vars,
                   consolidate_vars, impute_vars, score_vars, pipeline_vars,
                   validator_vars>>

\* remove_duplicates called on its own
RemoveDuplicates ==
    /\ cl_pc = "remove_duplicates"
    /\ df' = remove_duplicates(df)
    /\ cl_pc' = "deduplicated"
    /\ UNCHANGED <<df0, cleaning_report, feature_vars, main_vars, weight_vars, pure_vars,
                   unify_vars, consolidate_vars, impute_vars, score_vars, pipeline_vars,
                   validator_vars>>

----------------------------------------------------------------------------
(* preprocesamiento/feature_engineer.py: FeatureEngineer.  The nutrient cells other
   than energia_kcal are whole numbers, so the round(2) and round(1) of the
   aggregates leave them as they are *)

THRESHOLD_HIGH_SALT == PyFloat(15, 1)
THRESHOLD_HIGH_SUGAR == PyFloat(15, 0)
THRESHOLD_HIGH_FAT == PyFloat(175, 1)
THRESHOLD_HIGH_SATURATED == PyFloat(5, 0)

\* a dict in insertion order; inf marks the bound float('inf')
CALORIE_CATEGORIES ==
    <<[category |-> "bajo", min_val |-> 0, max_val |-> 100, inf |-> FALSE],
      [category |-> "medio", min_val |-> 100, max_val |-> 300, inf |-> FALSE],
      [category |-> "alto", min_val |-> 300, max_val |-> 500, inf |-> FALSE],
      [category |-> "muy_alto", min_val |-> 500, max_val |-> 0, inf |-> TRUE]>>

PyBool(b) == [t |-> "bool", s |-> <<>>, n |-> IF b THEN 1 ELSE 0, e |-> 0]

\* a value of a categorical column
Label(name) == PyStr(<<name>>)

\* series.notna() & (series > limit), for one cell
GreaterThan(v, limit) == ~IsNa(v) /\ ~FloatLeq(v, limit)

\* num / den in units of 1/scale, rounded to the nearest, ties to even
RoundHalfEven(num, den, scale) ==
    LET q == (num * scale) \div den
        rest == (num * scale) % den
    IN  IF 2 * rest < den THEN q
        ELSE IF 2 * rest > den THEN q + 1
        ELSE IF q % 2 = 0 THEN q ELSE q + 1

\* (a / b).round(3) of two cells, b positive
RatioCell(a, b) ==
    IF IsNa(a) THEN PyNaN ELSE PyFloat(RoundHalfEven(Units(a), Units(b), 1000), 3)

\* the ratio written over its numerator column
LocRatio_OverNumerator(table, name, num, den) ==
    IF {num, den} \subseteq table.columns
    THEN SetColumn(table, num,
                   [r \in AllRows(table) |->
                       IF GreaterThan(table.rows[r][den], PyFloat(0, 0))
                       THEN RatioCell(table.rows[r][num], table.rows[r][den])
                       ELSE table.rows[r][num]])
    ELSE table

\* lines 37-42:  df.loc[mask, name] = (df.loc[mask, num] / df.loc[mask, den]).round(3)
\* with mask the rows whose den is positive; the other rows keep the cell they had,
\* NaN in a column that is new
LocRatio(table, name, num, den) ==
    IF {num, den} \subseteq table.columns
    THEN SetColumn(table, name,
                   [r \in AllRows(table) |->
                       IF GreaterThan(table.rows[r][den], PyFloat(0, 0))
                       THEN RatioCell(table.rows[r][num], table.rows[r][den])
                       ELSE IF name \in table.columns THEN table.rows[r][name]
                       ELSE PyNaN])
    ELSE table

\* lines 37-62
create_nutritional_ratios(table) ==
    LocRatio(
        LocRatio(
            LocRatio(
                LocRatio(table, "ratio_grasas_saturadas", "grasas_saturadas",
                         "grasas_totales"),
                "ratio_azucares", "azucares", "carbohidratos"),
            "ratio_proteina_carbohidratos", "proteinas", "carbohidratos"),
        "ratio_proteina_grasas", "proteinas", "grasas_totales")

\* df[name] = f(df[col]) when the table has the column col
Derive(table, from, name, F(_)) ==
    IF from \in table.columns
    THEN SetColumn(table, name, [r \in AllRows(table) |-> F(table.rows[r][from])])
    ELSE table

\* series.notna() & (series != ""), for one cell
NonEmpty(v) == PyBool(~IsNa(v) /\ v # PyStr(<<>>))

\* lines 81-108
create_health_indicators(table) ==
    Derive(
     Derive(
      Derive(
       Derive(
        Derive(
         Derive(
          Derive(table, "fibra", "tiene_fibra",
                 LAMBDA v : PyBool(GreaterThan(v, PyFloat(0, 0)))),
          "sal", "alto_contenido_sal",
          LAMBDA v : PyBool(GreaterThan(v, THRESHOLD_HIGH_SALT))),
         "azucares", "alto_contenido_azucar",
         LAMBDA v : PyBool(GreaterThan(v, THRESHOLD_HIGH_SUGAR))),
        "grasas_totales", "alto_contenido_grasas",
        LAMBDA v : PyBool(GreaterThan(v, THRESHOLD_HIGH_FAT))),
       "grasas_saturadas", "alto_contenido_grasas_saturadas",
       LAMBDA v : PyBool(GreaterThan(v, THRESHOLD_HIGH_SATURATED))),
      "alergenos", "tiene_alergenos", NonEmpty),
     "certificaciones", "tiene_certificaciones", NonEmpty)

\* lines 128-131: the macronutrient columns the table has
SumColumns(table) ==
    {"grasas_totales", "carbohidratos", "proteinas", "fibra"} \cap table.columns

\* sum(axis=1, skipna=True) of a row over the columns cols
RECURSIVE RowSum(_, _)
RowSum(cells, cols) ==
    IF cols = {} THEN 0
    ELSE LET c == CHOOSE x \in cols : TRUE
         IN  (IF IsNa(cells[c]) THEN 0 ELSE Units(cells[c])) + RowSum(cells, cols \ {c})

\* (series * k).round(1), for one cell
Calories(v, k) == IF IsNa(v) THEN PyNaN ELSE PyFloat(Units(v) * k, 0)

\* the sum taking in the suma_macronutrientes the table already holds
SumMacronutrients_Accumulating(table) ==
    IF SumColumns(table) = {} THEN table
    ELSE SetColumn(table, "suma_macronutrientes",
                   [r \in AllRows(table) |->
                       PyFloat(RowSum(table.rows[r],
                                      SumColumns(table)
                                          \cup ({"suma_macronutrientes"}
                                                   \cap table.columns)), 0)])

\* lines 127-134
SumMacronutrients(table) ==
    IF SumColumns(table) = {} THEN table
    ELSE SetColumn(table, "suma_macronutrientes",
                   [r \in AllRows(table) |->
                       PyFloat(RowSum(table.rows[r], SumColumns(table)), 0)])

\* lines 127-149
create_aggregate_features(table) ==
    Derive(
     Derive(
      Derive(
       Derive(SumMacronutrients(table), "energia_kcal", "densidad_calorica",
              LAMBDA v : v),
       "grasas_totales", "calorias_de_grasas", LAMBDA v : Calories(v, 9)),
      "carbohidratos", "calorias_de_carbohidratos", LAMBDA v : Calories(v, 4)),
     "proteinas", "calorias_de_proteinas", LAMBDA v : Calories(v, 4))

\* lines 171-173: the loop over CALORIE_CATEGORIES from entry i on, and line 174
RECURSIVE CategoryFrom(_, _)
CategoryFrom(kcal, i) ==
    IF i > Len(CALORIE_CATEGORIES) THEN "muy_alto"
    ELSE IF /\ FloatLeq(PyFloat(CALORIE_CATEGORIES[i].min_val, 0), kcal)
            /\ \/ CALORIE_CATEGORIES[i].inf
               \/ ~FloatLeq(PyFloat(CALORIE_CATEGORIES[i].max_val, 0), kcal)
    THEN CALORIE_CATEGORIES[i].category
    ELSE CategoryFrom(kcal, i + 1)

\* lines 168-174
categorize_calories(kcal) ==
    IF IsNa(kcal) THEN Label("desconocido") ELSE Label(CategoryFrom(kcal, 1))

\* pct of a <= pct of b, each being x / total * 100
PctLeq(a, b, total) == IF total > 0 THEN a <= b ELSE b <= a

\* lines 180-200
get_macronutrient_profile(cells) ==
    LET fat == Units(cells["grasas_totales"])
        carb == Units(cells["carbohidratos"])
        protein == Units(cells["proteinas"])
        total == fat + carb + protein
    IN  IF IsNa(cells["grasas_totales"]) \/ IsNa(cells["carbohidratos"])
           \/ IsNa(cells["proteinas"])
        THEN Label("desconocido")
        ELSE IF total = 0 THEN Label("desconocido")
        ELSE IF PctLeq(carb, fat, total) /\ PctLeq(protein, fat, total)
        THEN Label("alto_en_grasas")
        ELSE IF PctLeq(fat, carb, total) /\ PctLeq(protein, carb, total)
        THEN Label("alto_en_carbohidratos")
        ELSE Label("alto_en_proteinas")

\* lines 167-202
create_categorical_features(table) ==
    LET with_category ==
            Derive(table, "energia_kcal", "categoria_calorica", categorize_calories)
    IN  IF {"grasas_totales", "carbohidratos", "proteinas"} \subseteq table.columns
        THEN SetColumn(with_category, "perfil_macronutrientes",
                       [r \in AllRows(table) |->
                           get_macronutrient_profile(with_category.rows[r])])
        ELSE with_category

\* create_all_features is entered: lines 218-220
FeaturesEnter ==
    /\ fe_pc = "call"
    /\ fe_call' = fe_call + 1
    /\ fe_pc' = "ratios"
    /\ UNCHANGED <<df, df0, fe_df, dv_pc, validation_report, cleaner_vars, main_vars,
                   weight_vars, pure_vars, unify_vars, consolidate_vars, impute_vars,
                   score_vars, pipeline_vars>>

\* lines 222-232: the four steps, each on the table the step before returned
FeaturesStep ==
    /\ fe_pc \in {"ratios", "indicators", "aggregates", "categorical"}
    /\ df' = CASE fe_pc = "ratios" -> create_nutritional_ratios(df)
               [] fe_pc = "indicators" -> create_health_indicators(df)
               [] fe_pc = "aggregates" -> create_aggregate_features(df)
               [] fe_pc = "categorical" -> create_categorical_features(df)
    /\ fe_pc' = CASE fe_pc = "ratios" -> "indicators"
                  [] fe_pc = "indicators" -> "aggregates"
                  [] fe_pc = "aggregates" -> "categorical"
                  [] fe_pc = "categorical" -> "return"
    /\ UNCHANGED <<df0, fe_call, fe_df, dv_pc, validation_report, cleaner_vars,
                   main_vars, weight_vars, pure_vars, unify_vars, consolidate_vars,
                   impute_vars, score_vars, pipeline_vars>>

\* line 243: the table is returned; the first result is kept and given to a second
\* application
FeaturesReturn ==
    /\ fe_pc = "return"
    /\ fe_df' = IF fe_call = 1 THEN df ELSE fe_df
    /\ fe_pc' = IF fe_call = 1 THEN "call" ELSE "done"
    /\ UNCHANGED <<df, df0, fe_call, dv_pc, validation_report, cleaner_vars, main_vars,
                   weight_vars, pure_vars, unify_vars, consolidate_vars, impute_vars,
                   score_vars, pipeline_vars>>

----------------------------------------------------------------------------
(* The calls of the pure functions *)

CleanNumericValue ==
    /\ cn_result = Pending
    /\ cn_result' = clean_numeric_value(value)
    /\ UNCHANGED <<value, nutrition_dict, source, sn_result, product, vp_result,
                   alcampo_data, openfood_data, openfood_products, unified_products,
                   idx, pc>>
    /\ UNCHANGED stage_vars

StandardizeNutrition ==
    /\ sn_result = NotRun
    /\ sn_result' = standardize_nutrition(nutrition_dict, source)
    /\ UNCHANGED <<value, cn_result, nutrition_dict, source, product, vp_result,
                   alcampo_data, openfood_data, openfood_products, unified_products,
                   idx, pc>>
    /\ UNCHANGED stage_vars

ValidateUnifiedProduct ==
    /\ vp_result = "pending"
    /\ vp_result' = IF validate_unified_product(product) THEN "True" ELSE "False"
    /\ UNCHANGED <<value, cn_result, nutrition_dict, source, sn_result, product,
                   alcampo_data, openfood_data, openfood_products, unified_products,
                   idx, pc>>
    /\ UNCHANGED stage_vars

ParseWeightVolume ==
    /\ wv_result = NotRun
    /\ wv_result' = parse_weight_volume(weight_str)
    /\ UNCHANGED <<weight_str, pure_vars, unify_vars, df, consolidate_vars, df0,
                   impute_vars, score_vars, pipeline_vars, validator_vars, ext_vars>>

----------------------------------------------------------------------------
(* Inputs *)

RECURSIVE StringsUpTo(_, _)
StringsUpTo(A, n) ==
    IF n = 0 THEN {<<>>}
    ELSE LET S == StringsUpTo(A, n - 1) IN S \cup {Append(s, c) : s \in S, c \in A}

NumericAlphabet == {"0", "5", ".", ",", "-", "g", "K", "j", " "}

NamedNumericStrings ==
    { <<"1", ".", "5", "8", "0">>,
      <<"3", "7", "5">>,
      <<"a", "b", "c">>,
      <<"1", "2", "0", "g">>,
      <<"1", "2", ",", "5", " ", "k", "g">>,
      <<"+", ".", "5", " ", "x", " ", "2">>,
      <<"2", ",", "9", "9", " ", "EUR">> }

NumericInputs ==
    {PyNone, PyNaN, PyHugeInt, PyInt(0), PyInt(3), PyInt(0 - 2), PyFloat(15, 1),
     PyFloat(0 - 25, 2)}
    \cup {PyStr(s) : s \in StringsUpTo(NumericAlphabet, MaxStrLen) \cup NamedNumericStrings}

NutritionInputKeys ==
    {"valor_energetico_kj", "valor_energetico_kcal", "grasas_g", "grasas", "fibra",
     "energia", "otra"}

NutritionInputValues ==
    {PyNone, PyInt(0), PyHugeInt, PyFloat(35, 1),
     PyStr(<<"0">>), PyStr(<<"0", ",", "0", " ", "g">>), PyStr(<<"3", "7", "5">>),
     PyStr(<<"1", ".", "5", "8", "0">>), PyStr(<<"a", "b", "c">>),
     PyStr(<<"5", " ", "k", "J", " ", "(", "3", " ", "k", "c", "a", "l", ")">>)}

\* most keys in an enumerated nutrition dict
MaxKeys == 2

\* a figure followed by a unit, as the sources write the two halves of 'energia'
EnergyFigures == {<<"5">>, <<"0">>}
KjParts ==
    {<<>>} \cup {f \o u : f \in EnergyFigures, u \in {<<"k", "j">>, <<" ", "k", "J">>}}
KcalParts ==
    {<<>>} \cup {f \o <<"k", "c", "a", "l">> : f \in EnergyFigures}
           \cup {<<" ", "(">> \o f \o <<" ", "K", "c", "a", "l", ")">> : f \in EnergyFigures}

\* the values enumerated under the key 'energia'
EnergyInputValues ==
    {PyNone, PyInt(3)}
    \cup {PyStr(a \o b) : a \in KjParts, b \in KcalParts}
    \cup {PyStr(<<".", " ", "k", "j">>), PyStr(<<"2", ",", "5", " ", "K", "J">>),
          PyStr(<<"a", "b", "c">>), PyStr(<<"k", "c", "a", "l", " ", "5">>),
          PyStr(<<"5", " ", "k", "J", " ", "(", "3", " ", "k", "c", "a", "l", ")">>)}

NutritionDicts ==
    UNION {{d \in [ks -> NutritionInputValues \cup EnergyInputValues] :
               \A k \in ks : IF k = "energia" THEN d[k] \in EnergyInputValues
                                ELSE d[k] \in NutritionInputValues} :
              ks \in {ks \in SUBSET NutritionInputKeys : Cardinality(ks) <= MaxKeys}}

NutritionInputs ==
    {ObjNone, ObjInt(0), ObjInt(5), ObjStr({}, 0), ObjStr({}, 3), ObjStr({"grasas"}, 6),
     ObjStr({"energia"}, 7), ObjList({}, 0), ObjList({}, 2), ObjList({"grasas_g"}, 1)}
    \cup {ObjDict(d) : d \in NutritionDicts}

SourceTags == {"alcampo", "openfoodfacts", "unknown"}

UrlInputs == {PyNone, PyStr(<<>>), PyStr(<<"u", "1">>), PyInt(7)}

NutritionFieldInputs ==
    {ObjNone, ObjDict(<<>>), ObjDict(DEFAULT_NUTRITION),
     ObjDict([DEFAULT_NUTRITION EXCEPT !["sal_g"] = PyFloat(12, 1)]),
     ObjStr({}, 3), ObjList({}, 0), ObjInt(0)}

ProductDicts ==
    UNION {{[k \in ks |-> CASE k = "url" -> u [] k = "titulo" -> ti [] OTHER -> nu] :
                u \in UrlInputs, ti \in UrlInputs, nu \in NutritionFieldInputs} :
              ks \in SUBSET {"url", "titulo", "valores_nutricionales_100_g"}}

ProductInputs ==
    {ObjNone, ObjInt(5), ObjStr({}, 3), ObjList({}, 2)} \cup {ObjDict(d) : d \in ProductDicts}

\* weight and volume texts: a figure, a blank or none, unit letters, a tail
WeightFigures == {<<>>, <<"1">>, <<"5", "0">>, <<"1", ",", "5">>, <<"0", ".", "3", "3">>, <<".">>}
WeightUnits ==
    {<<>>, <<"g">>, <<"k", "g">>, <<"K", "G">>, <<"m", "l">>, <<"l">>, <<"L">>, <<"c", "l">>,
     <<"m", "g">>, <<"k">>, <<"g", "r">>, <<"m">>, <<"l", "g">>, <<"c", "m", "l">>, <<"x">>}
WeightTails == {<<>>, <<".">>, <<" ">>, <<" ", ".">>, <<" ", "x">>}
WeightTexts ==
    {f \o b \o u \o t :
        f \in WeightFigures, b \in {<<>>, <<" ">>}, u \in WeightUnits, t \in WeightTails}
    \cup {<<"r", "a", "n", "g", "o", " ", "d", "e", " ", "p", "e", "s", "o", " ", "a">>,
          <<"R", "a", "n", "g", "o", " ", "d", "e", " ", "P", "E", "S", "O">>,
          <<"1", " ", "k", "g", " ", "r", "a", "n", "g", "o", " ", "d", "e", " ",
            "p", "e", "s", "o">>,
          <<" ", "1", " ", "k", "g">>, <<"a", "b", "c">>, <<"k", "g", " ", "1">>}

WeightInputs ==
    {PyNone, PyInt(500), PyFloat(15, 1), PyList(<<>>), PyList(<<PyInt(5)>>)}
    \cup {PyList(<<v, u>>) :
             v \in {PyNone, PyInt(5), PyHugeInt, PyStr(<<"1", ",", "5">>), PyStr(<<"a">>)},
             u \in {PyNone, PyStr(<<"k", "g">>), PyStr(<<"g">>), PyInt(3)}}
    \cup {PyStr(w) : w \in WeightTexts}

\* most rows in an enumerated table
MaxRows == 2

CellInputs == {PyNone, PyNaN, PyFloat(3, 0), PyFloat(5, 0)}

\* every table of at most n rows over the given columns and cells
TablesUpTo(columns, cells, n) ==
    {DataFrame(columns, rows) : rows \in UNION {[1..k -> [columns -> cells]] : k \in 0..n}}

ConsolidateTables ==
    TablesUpTo({"a", "b"}, CellInputs, MaxRows) \cup TablesUpTo({"b"}, CellInputs, 1)

\* candidate lists: columns of the table and a label the table does not have ("zz")
CandidateLists ==
    {<<>>, <<"a">>, <<"zz">>, <<"a", "b">>, <<"b", "a">>, <<"zz", "b">>, <<"b", "zz">>,
     <<"a", "a">>, <<"a", "b", "a">>, <<"b", "zz", "a">>, <<"zz", "a", "b">>,
     <<"a", "zz", "b">>}

\* most rows in a table given to impute_missing_values
MaxImputeRows == 4

SourceA == PyStr(<<"A">>)
SourceB == PyStr(<<"B">>)
SourceC == PyStr(<<"C">>)

ImputeColumns == {"source", "brand", "energia_kcal", "sal"}

ImputeRow(src, kcal, sal) ==
    [c \in ImputeColumns |->
        CASE c = "source" -> src [] c = "brand" -> PyNone [] c = "energia_kcal" -> kcal
          [] OTHER -> sal]

\* the kinds of row of the enumerated tables
ImputeRows ==
    {ImputeRow(SourceA, PyFloat(10, 0), PyNone), ImputeRow(SourceA, PyFloat(30, 0), PyFloat(1, 0)),
     ImputeRow(SourceA, PyNone, PyFloat(3, 0)), ImputeRow(SourceB, PyFloat(100, 0), PyNone),
     ImputeRow(SourceC, PyNaN, PyNone), ImputeRow(PyNone, PyNone, PyNone)}

ImputeTables ==
    {DataFrame(ImputeColumns, rows) :
        rows \in UNION {[1..k -> ImputeRows] : k \in 0..MaxImputeRows}}

\* the columns calculate_nutriscore reads
ScoreColumns ==
    {"energia_kcal", "grasas_totales", "grasas_saturadas", "azucares", "sal", "fibra",
     "proteinas"}

ScoreCells(k) ==
    CASE k = "energia_kcal" ->
             {PyNone, PyFloat(400, 0), PyFloat(500, 0), PyFloat(5000, 0), PyFloat(0 - 50, 0)}
      [] k = "grasas_totales" -> {PyNone, PyFloat(20, 0), PyFloat(30, 0)}
      [] k = "grasas_saturadas" -> {PyNone, PyFloat(10, 0)}
      [] k = "azucares" -> {PyNone, PyFloat(155, 1)}
      [] k = "sal" -> {PyNone, PyNaN, PyFloat(15, 1), PyFloat(16, 1)}
      [] k = "fibra" -> {PyNone, PyFloat(6, 0), PyFloat(60, 0)}
      [] OTHER -> {PyNone, PyFloat(11, 0), PyFloat(200, 0)}

ScoreRows ==
    {[k \in ScoreColumns |->
         CASE k = "energia_kcal" -> kcal [] k = "grasas_totales" -> fat
           [] k = "grasas_saturadas" -> sat [] k = "azucares" -> sugar [] k = "sal" -> salt
           [] k = "fibra" -> fibre [] OTHER -> protein] :
        kcal \in ScoreCells("energia_kcal"), fat \in ScoreCells("grasas_totales"),
        sat \in ScoreCells("grasas_saturadas"), sugar \in ScoreCells("azucares"),
        salt \in ScoreCells("sal"), fibre \in ScoreCells("fibra"),
        protein \in ScoreCells("proteinas")}

\* tables given to prepare_ml_features_pipeline: the tables of the imputation, a
\* table without a source column, tables with text and oversized cells to clean
PipelineTables ==
    ImputeTables
    \cup {DataFrame({"brand", "energia_kcal"},
                    <<[brand |-> PyNone, energia_kcal |-> PyFloat(10, 0)]>>)}
    \cup {DataFrame({"source", "energia_kcal", "sal", "price"},
                    <<[source |-> SourceA, energia_kcal |-> kcal,
                       sal |-> PyStr(<<"1", ",", "5", " ", "g">>), price |-> price]>>) :
              kcal \in {PyStr(<<"3", "7", "5">>), PyHugeInt},
              price \in {PyStr(<<"2", ",", "9", "9", " ", "EUR">>), PyHugeInt}}

\* the columns of the validated tables
ValidatorColumns ==
    {"grasas_saturadas", "grasas_totales", "azucares", "carbohidratos", "energia_kcal",
     "energia_kj", "proteinas"}

ProductRow(sat, fat, sugar, carb, kcal, kj, prot) ==
    [grasas_saturadas |-> sat, grasas_totales |-> fat, azucares |-> sugar,
     carbohidratos |-> carb, energia_kcal |-> kcal, energia_kj |-> kj, proteinas |-> prot]

\* whole-number cells: a consistent product, then products breaking one rule, two rules, a range, and a
\* product with nulls
ProductRows ==
    {ProductRow(PyFloat(1, 0), PyFloat(5, 0), PyFloat(2, 0), PyFloat(10, 0),
                PyFloat(100, 0), PyFloat(418, 0), PyFloat(3, 0)),
     ProductRow(PyFloat(6, 0), PyFloat(5, 0), PyFloat(2, 0), PyFloat(10, 0),
                PyFloat(100, 0), PyFloat(418, 0), PyFloat(3, 0)),
     ProductRow(PyFloat(1, 0), PyFloat(5, 0), PyFloat(20, 0), PyFloat(10, 0),
                PyFloat(100, 0), PyFloat(430, 0), PyFloat(3, 0)),
     ProductRow(PyFloat(1, 0), PyFloat(5, 0), PyFloat(2, 0), PyFloat(10, 0),
                PyFloat(100, 0), PyFloat(600, 0), PyFloat(3, 0)),
     ProductRow(PyFloat(1, 0), PyFloat(50, 0), PyFloat(2, 0), PyFloat(40, 0),
                PyFloat(100, 0), PyFloat(418, 0), PyFloat(30, 0)),
     ProductRow(PyFloat(6, 0), PyFloat(5, 0), PyFloat(20, 0), PyFloat(10, 0),
                PyFloat(0, 0), PyFloat(50, 0), PyFloat(3, 0)),
     ProductRow(PyFloat(6, 0), PyNaN, PyNaN, PyFloat(10, 0),
                PyNaN, PyFloat(600, 0), PyFloat(3, 0)),
     ProductRow(PyFloat(1, 0), PyFloat(5, 0), PyFloat(2, 0), PyFloat(10, 0),
                PyFloat(950, 0), PyFloat(3975, 0), PyFloat(3, 0)),
     ProductRow(PyFloat(60, 0), PyFloat(50, 0), PyFloat(2, 0), PyFloat(45, 0),
                PyFloat(100, 0), PyFloat(200, 0), PyFloat(30, 0))}

\* the tables validated: with every column, without the columns of some rules
ValidatorTables ==
    {SelectColumns(DataFrame(ValidatorColumns, rows), keep) :
        rows \in UNION {[1..k -> ProductRows] : k \in 0..MaxRows},
        keep \in {ValidatorColumns,
                  ValidatorColumns \ {"grasas_saturadas", "energia_kj"},
                  {"azucares", "carbohidratos", "proteinas"}}}

\* most products a loader returns in an enumerated run of main()
MaxLoaded == 2

MainEnvs ==
    [alcampo_exists : BOOLEAN, openfood_exists : BOOLEAN,
     alcampo_count : 0..MaxLoaded, openfood_count : 0..MaxLoaded,
     load_raises : BOOLEAN, pipeline_raises : BOOLEAN, save_raises : BOOLEAN,
     summary_raises : BOOLEAN]

CleanerColumns ==
    {"url", "product_name", "energia_kcal", "sal", "weight_volume_clean", "weight_unit"}

RawRow(url, name, kcal, sal, weight, unit) ==
    [url |-> url, product_name |-> name, energia_kcal |-> kcal, sal |-> sal,
     weight_volume_clean |-> weight, weight_unit |-> unit]

\* rows as read from the CSV: text, numbers, numbers spelt as text, NaN where empty;
\* a repeated url with different names, missing urls, a missing name, too few nutrients
RawRows ==
    {RawRow(PyStr(<<"u", "1">>), PyStr(<<"L", "e", "c", "h", "e">>), PyFloat(65, 0),
            PyFloat(1, 0), PyStr(<<"1", "0", "0", "0">>), PyStr(<<"M", "L">>)),
     RawRow(PyStr(<<"u", "1">>), PyStr(<<"L", "e", " ", " ", "c", "h", "e", " ">>), PyNaN,
            PyNaN, PyNaN, PyNaN),
     RawRow(PyStr(<<"u", "2">>), PyNaN, PyFloat(100, 0), PyFloat(2, 0), PyFloat(5, 0),
            PyStr(<<"g">>)),
     RawRow(PyNaN, PyStr(<<"P", "a", "n">>), PyStr(<<"1", "2">>), PyNaN,
            PyStr(<<"a", "b", "c">>), PyStr(<<" ", "g", " ">>)),
     RawRow(PyNaN, PyStr(<<" ", "n", "a", "n">>), PyFloat(5, 0), PyFloat(1, 0),
            PyFloat(500, 0), PyStr(<<"n", "a", "n">>)),
     RawRow(PyStr(<<"u", "2">>), PyStr(<<"Y", "o", "g", "u", "r">>), PyFloat(50, 0),
            PyStr(<<"a", "b", "c">>), PyFloat(125, 0), PyStr(<<"g">>))}

CleanerTables ==
    {SelectColumns(DataFrame(CleanerColumns, rows), keep) :
        rows \in UNION {[1..k -> RawRows] : k \in 0..MaxRows},
        keep \in {CleanerColumns,
                  CleanerColumns \ {"url", "product_name"},
                  {"url", "product_name", "weight_unit"}}}

FeatureColumns ==
    {"energia_kcal", "grasas_totales", "grasas_saturadas", "carbohidratos", "azucares",
     "proteinas", "sal", "fibra", "alergenos", "certificaciones", "ratio_azucares"}

\* cells in the order energia_kcal, grasas_totales, grasas_saturadas, carbohidratos,
\* azucares, proteinas, sal, fibra, alergenos, certificaciones
FeatureRow(cells) ==
    [energia_kcal |-> cells[1], grasas_totales |-> cells[2],
     grasas_saturadas |-> cells[3], carbohidratos |-> cells[4], azucares |-> cells[5],
     proteinas |-> cells[6], sal |-> cells[7], fibra |-> cells[8],
     alergenos |-> cells[9], certificaciones |-> cells[10],
     ratio_azucares |-> PyFloat(9, 0)]

\* products on both sides of every calorie bound, with and without each nutrient,
\* with zero and missing denominators, and one with a negative energy
FeatureRows ==
    {FeatureRow(<<PyFloat(0, 0), PyFloat(0, 0), PyFloat(0, 0), PyFloat(0, 0),
                  PyFloat(0, 0), PyFloat(0, 0), PyFloat(0, 0), PyFloat(0, 0),
                  PyStr(<<>>), PyNaN>>),
     FeatureRow(<<PyFloat(995, 1), PyFloat(3, 0), PyFloat(2, 0), PyFloat(16, 0),
                  PyFloat(5, 0), PyFloat(3, 0), PyFloat(1, 0), PyNaN,
                  PyStr(<<"l", "e", "c", "h", "e">>), PyStr(<<"e", "c", "o">>)>>),
     FeatureRow(<<PyFloat(100, 0), PyFloat(7, 0), PyNaN, PyFloat(3, 0),
                  PyFloat(16, 0), PyFloat(20, 0), PyFloat(2, 0), PyFloat(1, 0),
                  PyNaN, PyStr(<<>>)>>),
     FeatureRow(<<PyFloat(2999, 1), PyFloat(18, 0), PyFloat(6, 0), PyNaN,
                  PyFloat(1, 0), PyFloat(18, 0), PyNaN, PyFloat(3, 0),
                  PyStr(<<"s", "o", "j", "a">>), PyNaN>>),
     FeatureRow(<<PyFloat(300, 0), PyNaN, PyFloat(1, 0), PyFloat(60, 0),
                  PyNaN, PyFloat(8, 0), PyFloat(3, 0), PyFloat(0, 0),
                  PyStr(<<>>), PyStr(<<>>)>>),
     FeatureRow(<<PyFloat(4999, 1), PyFloat(30, 0), PyFloat(30, 0), PyFloat(30, 0),
                  PyFloat(30, 0), PyFloat(30, 0), PyFloat(1, 0), PyFloat(2, 0),
                  PyNaN, PyNaN>>),
     FeatureRow(<<PyFloat(500, 0), PyFloat(16, 0), PyFloat(1, 0), PyFloat(3, 0),
                  PyFloat(2, 0), PyFloat(16, 0), PyFloat(0, 0), PyNaN,
                  PyNaN, PyNaN>>),
     FeatureRow(<<PyFloat(900, 0), PyFloat(100, 0), PyFloat(14, 0), PyFloat(0, 0),
                  PyFloat(0, 0), PyFloat(0, 0), PyNaN, PyNaN,
                  PyStr(<<>>), PyStr(<<"e", "c", "o">>)>>),
     FeatureRow(<<PyNaN, PyNaN, PyNaN, PyNaN, PyNaN, PyNaN, PyNaN, PyNaN,
                  PyNaN, PyNaN>>),
     FeatureRow(<<PyFloat(-5, 0), PyFloat(1, 0), PyFloat(1, 0), PyFloat(8, 0),
                  PyFloat(1, 0), PyFloat(16, 0), PyFloat(16, 0), PyFloat(6, 0),
                  PyStr(<<>>), PyStr(<<>>)>>)}

\* the whole product table, one without some of the columns, and one that already
\* holds a column with the name of a ratio
FeatureTables ==
    {SelectColumns(DataFrame(FeatureColumns, rows), keep) :
        rows \in UNION {[1..k -> FeatureRows] : k \in 0..MaxRows},
        keep \in {FeatureColumns \ {"ratio_azucares"},
                  FeatureColumns \ {"ratio_azucares", "grasas_totales", "fibra",
                                    "certificaciones"},
                  FeatureColumns}}

----------------------------------------------------------------------------
(* Specifications *)

NumericIdle == value = PyNone /\ cn_result = Pending
NutritionIdle == nutrition_dict = ObjNone /\ source = "unknown" /\ sn_result = NotRun
ValidateIdle == product = ObjNone /\ vp_result = "pending"
UnifyIdle ==
    /\ alcampo_data = DataNone /\ openfood_data = DataNone
    /\ openfood_products = DataNone /\ unified_products = <<>> /\ idx = 0 /\ pc = "idle"
WeightIdle == weight_str = PyNone /\ wv_result = NotRun
ConsolidateIdle == possible_cols = <<>> /\ sc_result = <<>> /\ col = 0
TableIdle == df = DataFrame({}, <<>>) /\ df0 = DataFrame({}, <<>>)
ImputeIdle == imp_col = 0 /\ imp_source = 0
ScoreIdle == row = <<>> /\ score = Pending /\ ns_result = Pending
PipelineIdle == pl_pc = "idle" /\ stages = <<>>
FeatureIdle == fe_pc = "idle" /\ fe_call = 0
CleanerIdle == cl_pc = "idle" /\ cleaning_report = <<>>
MainIdle == main_pc = "idle" /\ main_env = <<>> /\ calls = <<>> /\ exit_status = -1
ExtIdle == FeatureIdle /\ CleanerIdle /\ MainIdle
ValidatorIdle == dv_pc = "idle" /\ validation_report = <<>> /\ fe_df = DataFrame({}, <<>>)
StagesIdle ==
    /\ WeightIdle /\ TableIdle /\ ConsolidateIdle /\ ImputeIdle /\ ScoreIdle
    /\ PipelineIdle /\ ValidatorIdle /\ ExtIdle

InitNumeric ==
    /\ value \in NumericInputs /\ cn_result = Pending
    /\ NutritionIdle /\ ValidateIdle /\ UnifyIdle /\ StagesIdle

SpecNumeric == InitNumeric /\ [][CleanNumericValue]_vars

InitNutrition ==
    /\ nutrition_dict \in NutritionInputs /\ source \in SourceTags /\ sn_result = NotRun
    /\ NumericIdle /\ ValidateIdle /\ UnifyIdle /\ StagesIdle

SpecNutrition == InitNutrition /\ [][StandardizeNutrition]_vars

InitWeight ==
    /\ weight_str \in WeightInputs /\ wv_result = NotRun
    /\ NumericIdle /\ NutritionIdle /\ ValidateIdle /\ UnifyIdle
    /\ TableIdle /\ ConsolidateIdle /\ ImputeIdle /\ ScoreIdle /\ PipelineIdle /\ ValidatorIdle /\ ExtIdle

SpecWeight == InitWeight /\ [][ParseWeightVolume]_vars

InitConsolidate ==
    /\ df \in ConsolidateTables
    /\ possible_cols \in CandidateLists
    /\ sc_result = NoneSeries(df)
    /\ col = 0
    /\ df0 = df
    /\ NumericIdle /\ NutritionIdle /\ ValidateIdle /\ UnifyIdle /\ WeightIdle
    /\ ImputeIdle /\ ScoreIdle /\ PipelineIdle /\ ValidatorIdle /\ ExtIdle

SpecConsolidate == InitConsolidate /\ [][ConsolidateColumn]_vars

InitImpute ==
    /\ df \in ImputeTables
    /\ df0 = df
    /\ imp_col = 1
    /\ imp_source = 0
    /\ NumericIdle /\ NutritionIdle /\ ValidateIdle /\ UnifyIdle /\ WeightIdle
    /\ ConsolidateIdle /\ ScoreIdle /\ PipelineIdle /\ ValidatorIdle /\ ExtIdle

NextImpute == ImputeSkipColumn \/ ImputeSource \/ ImputeNextColumn

SpecImpute == InitImpute /\ [][NextImpute]_vars

InitScore ==
    /\ row \in ScoreRows /\ score = Pending /\ ns_result = Pending
    /\ NumericIdle /\ NutritionIdle /\ ValidateIdle /\ UnifyIdle /\ WeightIdle
    /\ TableIdle /\ ConsolidateIdle /\ ImputeIdle /\ PipelineIdle /\ ValidatorIdle /\ ExtIdle

NextScore == NutriscoreTerms \/ NutriscoreReturn

SpecScore == InitScore /\ [][NextScore]_vars

InitPipeline ==
    /\ df \in PipelineTables
    /\ df0 = df
    /\ pl_pc = "start"
    /\ stages = <<>>
    /\ NumericIdle /\ NutritionIdle /\ ValidateIdle /\ UnifyIdle /\ WeightIdle
    /\ ConsolidateIdle /\ ImputeIdle /\ ScoreIdle /\ ValidatorIdle /\ ExtIdle

NextPipeline ==
    \/ PipelineEnter \/ PipelineConsolidate \/ PipelineImpute \/ PipelineFilter
    \/ PipelineScore \/ PipelineSelect

SpecPipeline == InitPipeline /\ [][NextPipeline]_vars

\* create_all_features is called on a product table
InitFeatures ==
    /\ df \in FeatureTables
    /\ df0 = df
    /\ fe_pc = "call"
    /\ fe_call = 0
    /\ NumericIdle /\ NutritionIdle /\ ValidateIdle /\ UnifyIdle /\ WeightIdle
    /\ ConsolidateIdle /\ ImputeIdle /\ ScoreIdle /\ PipelineIdle
    /\ ValidatorIdle /\ CleanerIdle /\ MainIdle

NextFeatures == FeaturesEnter \/ FeaturesStep \/ FeaturesReturn

SpecFeatures == InitFeatures /\ [][NextFeatures]_vars

\* a call of clean_all, or of remove_duplicates alone
InitCleaner ==
    /\ df \in CleanerTables
    /\ df0 = df
    /\ cl_pc \in {"call", "remove_duplicates"}
    /\ cleaning_report = <<>>
    /\ NumericIdle /\ NutritionIdle /\ ValidateIdle /\ UnifyIdle /\ WeightIdle
    /\ ConsolidateIdle /\ ImputeIdle /\ ScoreIdle /\ PipelineIdle
    /\ ValidatorIdle /\ FeatureIdle /\ MainIdle

NextCleaner ==
    \/ CleanEnter \/ CleanEmptyRows \/ CleanDuplicates \/ CleanNutrition \/ CleanCells
    \/ CleanReturn \/ RemoveDuplicates

SpecCleaner == InitCleaner /\ [][NextCleaner]_vars

InitMain ==
    /\ main_env \in MainEnvs
    /\ main_pc = "start"
    /\ calls = <<>>
    /\ exit_status = -1
    /\ NumericIdle /\ NutritionIdle /\ ValidateIdle /\ UnifyIdle /\ WeightIdle
    /\ TableIdle /\ ConsolidateIdle /\ ImputeIdle /\ ScoreIdle /\ PipelineIdle
    /\ ValidatorIdle /\ FeatureIdle /\ CleanerIdle

NextMain == MainCheckFiles \/ MainLoad \/ MainPipeline \/ MainSave \/ MainSummary

SpecMain == InitMain /\ [][NextMain]_vars

\* run line 117 has returned: df is the table that left the normalization
InitValidator ==
    /\ df \in ValidatorTables
    /\ df0 = df
    /\ dv_pc = "call"
    /\ validation_report = <<>>
    /\ fe_df = DataFrame({}, <<>>)
    /\ NumericIdle /\ NutritionIdle /\ ValidateIdle /\ UnifyIdle /\ WeightIdle
    /\ ConsolidateIdle /\ ImputeIdle /\ ScoreIdle /\ PipelineIdle /\ ExtIdle

NextValidator ==
    \/ ValidateAllEnter \/ ValidateRanges \/ DetectOutliers \/ ValidateConsistency
    \/ ValidateAllReturn \/ EnterFeatureEngineering

SpecValidator == InitValidator /\ [][NextValidator]_vars

InitValidate ==
    /\ product \in ProductInputs /\ vp_result = "pending"
    /\ NumericIdle /\ NutritionIdle /\ UnifyIdle /\ StagesIdle

SpecValidate == InitValidate /\ [][ValidateUnifiedProduct]_vars

----------------------------------------------------------------------------
(* Inputs of the unifier *)

Url1 == PyStr(<<"u", "1">>)
Url2 == PyStr(<<"u", "2">>)
Leche == PyStr(<<"L", "e", "c", "h", "e">>)
Pan == PyStr(<<"P", "a", "n">>)
Yogur == PyStr(<<"Y", "o", "g", "u", "r">>)
YogurMarca == PyStr(<<"Y", "o", "g", "u", "r", " ", "ENDASH", " ", "M">>)

\* Alcampo-shaped records: valid, valid with the same url, without url, non-dict,
\* one whose nutrition is a number (standardize_nutrition raises)
AlcampoRecords ==
    { ObjDict([url |-> Url1, nombre |-> Leche,
               nutricion |-> ObjDict([valor_energetico_kcal |-> PyStr(<<"6", "5">>)])]),
      ObjDict([url |-> Url1, nombre |-> Pan, precio |-> PyStr(<<"2", ",", "5">>)]),
      ObjDict([nombre |-> Leche, nutricion |-> ObjDict(<<>>)]),
      ObjStr({}, 3),
      ObjDict([url |-> Url2, nombre |-> Leche, nutricion |-> ObjInt(5)]) }

\* OpenFoodFacts-shaped records: valid with Url1, empty URL, absent URL, null URL,
\* a title that is a number (clean_off_title raises)
OpenfoodRecords ==
    { ObjDict([URL |-> Url1, titulo |-> YogurMarca,
               valores_nutricionales_100_g |-> ObjDict([grasas |-> PyStr(<<"3", ",", "5">>)])]),
      ObjDict([URL |-> PyStr(<<>>), titulo |-> Yogur]),
      ObjDict([titulo |-> Yogur,
               valores_nutricionales_100_g |-> ObjDict([sal |-> PyInt(1)])]),
      ObjDict([URL |-> PyNone, titulo |-> Pan]),
      ObjDict([URL |-> Url2, titulo |-> PyInt(5)]) }

RECURSIVE ListsUpTo(_, _)
ListsUpTo(R, n) ==
    IF n = 0 THEN {<<>>}
    ELSE LET S == ListsUpTo(R, n - 1) IN S \cup {Append(s, r) : s \in S, r \in R}

AlcampoInputs ==
    {DataNone, DataInt(3), DataDict(<<>>)}
    \cup {DataList(l) : l \in ListsUpTo(AlcampoRecords, MaxRecs)}

\* bare lists, the same lists under 'products', values that are neither, a dict
\* without 'products', and 'products' holding a number, None or a str
OpenfoodInputs ==
    {DataNone, DataInt(3), DataStr(2), DataDict(<<>>), DataDict([otros |-> DataNone]),
     DataDict([products |-> DataInt(5)]), DataDict([products |-> DataNone]),
     DataDict([products |-> DataStr(2)])}
    \cup {DataList(l) : l \in ListsUpTo(OpenfoodRecords, MaxRecs)}
    \cup {DataDict([products |-> DataList(l)]) : l \in ListsUpTo(OpenfoodRecords, MaxRecs)}

InitUnify ==
    /\ alcampo_data \in AlcampoInputs
    /\ openfood_data \in OpenfoodInputs
    /\ openfood_products = DataNone
    /\ unified_products = <<>>
    /\ idx = 0
    /\ pc = "start"
    /\ NumericIdle /\ NutritionIdle /\ ValidateIdle /\ StagesIdle

NextUnify == BeginAlcampo \/ AlcampoRecord \/ SelectOpenfood \/ OpenfoodRecord

SpecUnify == InitUnify /\ [][NextUnify]_vars

----------------------------------------------------------------------------
(* What a run of the unifier is expected to return, stated from its inputs *)

Accepted(outcome) == outcome.status = "returned" /\ validate_unified_product(outcome.val)

RECURSIVE KeptAlcampo(_)
KeptAlcampo(items) ==
    IF Len(items) = 0 THEN <<>>
    ELSE (IF Accepted(transform_alcampo_product(items[1]))
          THEN <<transform_alcampo_product(items[1]).val>> ELSE <<>>)
         \o KeptAlcampo(SubSeq(items, 2, Len(items)))

RECURSIVE KeptOpenfood(_)
KeptOpenfood(items) ==
    IF Len(items) = 0 THEN <<>>
    ELSE (IF Accepted(transform_openfood_product(items[1]))
          THEN <<transform_openfood_product(items[1]).val>> ELSE <<>>)
         \o KeptOpenfood(SubSeq(items, 2, Len(items)))

\* the records of the first argument, when it is a list
AlcampoList == IF alcampo_data.t = "list" THEN alcampo_data.items ELSE <<>>

\* the records of the second argument: a bare list, or the value under 'products'
OpenfoodList ==
    IF openfood_data.t = "list" THEN openfood_data.items
    ELSE IF openfood_data.t = "dict" /\ "products" \in DOMAIN openfood_data.d
    THEN IterItems(openfood_data.d["products"])
    ELSE <<>>

AlcampoRaises(i) == transform_alcampo_product(AlcampoList[i]).status = "raised"
OpenfoodRaises(i) == transform_openfood_product(OpenfoodList[i]).status = "raised"

SomeRecordRaises ==
    \/ \E i \in 1..Len(AlcampoList) : AlcampoRaises(i)
    \/ \E i \in 1..Len(OpenfoodList) : OpenfoodRaises(i)

\* the record the loop is about to process raises in its transformer
CurrentRecordRaises ==
    \/ pc = "alcampo" /\ AlcampoRaises(idx)
    \/ pc = "openfood" /\ OpenfoodRaises(idx)

----------------------------------------------------------------------------
(* Claims *)

\* C1: the output is the accepted Alcampo products in input order followed by the
\* accepted OpenFoodFacts products in input order; nothing is reordered and nothing
\* is dropped for having the url of another product.
C1_SourceOrderKept ==
    /\ pc = "alcampo" => unified_products = KeptAlcampo(SubSeq(AlcampoList, 1, idx - 1))
    /\ pc = "select" => unified_products = KeptAlcampo(AlcampoList)
    /\ pc = "openfood" =>
           unified_products =
               KeptAlcampo(AlcampoList) \o KeptOpenfood(SubSeq(OpenfoodList, 1, idx - 1))
    /\ pc = "done" =>
           unified_products = KeptAlcampo(AlcampoList) \o KeptOpenfood(OpenfoodList)

\* a finished run whose output holds two Alcampo products and one OpenFoodFacts
\* product, all three with the same url
C1_Witness ==
    /\ pc = "done"
    /\ Len(unified_products) = 3
    /\ Len(KeptAlcampo(AlcampoList)) = 2
    /\ \A i \in 1..3 : unified_products[i].d["url"] = Url1

\* C2: a record whose transformation raises is skipped and nothing else: the step
\* leaves the output as it was and goes on to the next record or the next stage, and
\* a run in which some record raised ends with every acceptable record in its output.
C2_RecordFaultIsolated ==
    [][/\ CurrentRecordRaises =>
              /\ unified_products' = unified_products
              /\ pc' \in {"alcampo", "select", "openfood", "done"}
              /\ (pc' = pc => idx' = idx + 1)
       /\ (pc' = "done" /\ SomeRecordRaises) =>
              Len(unified_products') =
                  Cardinality({i \in 1..Len(AlcampoList) :
                                   Accepted(transform_alcampo_product(AlcampoList[i]))})
                  + Cardinality({i \in 1..Len(OpenfoodList) :
                                     Accepted(transform_openfood_product(OpenfoodList[i]))})
      ]_vars

\* a finished run in which the first Alcampo record and the first OpenFoodFacts record
\* raised and the records after them were accepted
C2_Witness ==
    /\ pc = "done"
    /\ Len(AlcampoList) = 2 /\ AlcampoRaises(1)
    /\ Len(OpenfoodList) = 2 /\ OpenfoodRaises(1)
    /\ Len(unified_products) = 2

\* a record with the required Alcampo fields: str url and name, nutrition absent or a dict
WellFormedAlcampo(r) ==
    /\ r.t = "dict"
    /\ Get(r.d, "url").t = "str" /\ Get(r.d, "nombre").t = "str"
    /\ GetObj(r.d, "nutricion").t \in {"none", "dict"}

MalformedSecondSource == openfood_data.t \notin {"list", "dict"}

\* C3: with a list of well-formed records as first source and a second source that is
\* neither a list nor a dict, the call does not raise and returns exactly the unified
\* products of the first source, in order.
C3_MalformedSecondSource ==
    (/\ alcampo_data.t = "list"
     /\ \A i \in 1..Len(alcampo_data.items) : WellFormedAlcampo(alcampo_data.items[i])
     /\ MalformedSecondSource)
    => /\ pc # "raised"
       /\ pc = "done" =>
              /\ Len(unified_products) = Len(alcampo_data.items)
              /\ \A i \in 1..Len(alcampo_data.items) :
                     /\ unified_products[i] = transform_alcampo_product(alcampo_data.items[i]).val
                     /\ unified_products[i].d["url"] = alcampo_data.items[i].d["url"]
                     /\ unified_products[i].d["titulo"] = alcampo_data.items[i].d["nombre"]

\* a finished run over MaxRecs well-formed Alcampo records and a number as second source
C3_Witness ==
    /\ pc = "done"
    /\ alcampo_data.t = "list" /\ Len(alcampo_data.items) = MaxRecs
    /\ \A i \in 1..Len(alcampo_data.items) : WellFormedAlcampo(alcampo_data.items[i])
    /\ openfood_data.t = "int"
    /\ Len(unified_products) = MaxRecs

\* C4: at every point of a run every product in the accumulated list is a mapping with
\* non-null url and titulo and a mapping as valores_nutricionales_100_g.
C4_OutputAlwaysValid ==
    \A i \in 1..Len(unified_products) :
        /\ unified_products[i].t = "dict"
        /\ {"url", "titulo", "valores_nutricionales_100_g"} \subseteq DOMAIN unified_products[i].d
        /\ unified_products[i].d["url"].t # "none"
        /\ unified_products[i].d["titulo"].t # "none"
        /\ unified_products[i].d["valores_nutricionales_100_g"].t = "dict"

\* mid-run: the first OpenFoodFacts record was returned by its transformer, failed
\* validation and was not appended, while the list already holds a product
C4_Witness ==
    /\ pc = "openfood" /\ idx = 2
    /\ transform_openfood_product(OpenfoodList[1]).status = "returned"
    /\ ~Accepted(transform_openfood_product(OpenfoodList[1]))
    /\ Len(unified_products) = 1

\* what the validator is stated to require of a record
RequiredFieldsPresent(p) ==
    /\ p.t = "dict"
    /\ "url" \in DOMAIN p.d /\ p.d["url"].t # "none"
    /\ "titulo" \in DOMAIN p.d /\ p.d["titulo"].t # "none"
    /\ "valores_nutricionales_100_g" \in DOMAIN p.d
    /\ p.d["valores_nutricionales_100_g"].t = "dict"

\* C5: validate_unified_product is True exactly for a mapping with non-null url and
\* titulo and a mapping under valores_nutricionales_100_g; all-null nutrition is
\* accepted, a record missing one of the three fields is rejected.
C5_ValidatorIff ==
    vp_result # "pending" =>
        /\ vp_result = "True" <=> RequiredFieldsPresent(product)
        /\ (product.t = "dict"
            /\ \E f \in {"url", "titulo", "valores_nutricionales_100_g"} :
                   f \notin DOMAIN product.d) => vp_result = "False"

\* a record with an empty-string url and all nine nutrition values null, accepted
C5_Witness ==
    /\ vp_result = "True"
    /\ product.d["url"] = PyStr(<<>>)
    /\ product.d["valores_nutricionales_100_g"] = ObjDict(DEFAULT_NUTRITION)

\* an OpenFoodFacts record whose 'URL' is absent, null or the empty string
EmptyUrlRecord(r) ==
    r.t = "dict" /\ ("URL" \notin DOMAIN r.d \/ r.d["URL"].t = "none" \/ r.d["URL"] = PyStr(<<>>))

\* C6: an OpenFoodFacts record with an empty URL never reaches the output: when every
\* record of the second source has an empty URL, the output is the accepted Alcampo
\* products and nothing else.
C6_EmptyUrlNeverUnified ==
    (pc = "done" /\ \A i \in 1..Len(OpenfoodList) : EmptyUrlRecord(OpenfoodList[i]))
    => unified_products = KeptAlcampo(AlcampoList)

\* m is a signed decimal literal: optional sign, digits with at most one point, digit last
IsNumberLiteral(m) ==
    /\ Len(m) >= 1
    /\ LET body == IF m[1] \in {"-", "+"} THEN SubSeq(m, 2, Len(m)) ELSE m
       IN  /\ Len(body) >= 1
           /\ \A i \in 1..Len(body) : body[i] \in Digits \cup {"."}
           /\ Cardinality({i \in 1..Len(body) : body[i] = "."}) <= 1
           /\ body[Len(body)] \in Digits

\* positions at which a signed decimal literal starts
LiteralStarts(s) ==
    {i \in 1..Len(s) : \E j \in i..Len(s) : IsNumberLiteral(SubSeq(s, i, j))}

\* the first signed decimal number of s, scanning left to right: the longest literal
\* at the leftmost position where one starts
FirstNumber(s) ==
    LET i == CHOOSE a \in LiteralStarts(s) : \A b \in LiteralStarts(s) : a <= b
        j == CHOOSE a \in i..Len(s) :
                 /\ IsNumberLiteral(SubSeq(s, i, a))
                 /\ \A b \in (a + 1)..Len(s) : ~IsNumberLiteral(SubSeq(s, i, b))
    IN  SubSeq(s, i, j)

\* what the claim states for every input but the "never raises" clause
CleanNumericAsStated ==
    /\ value.t \in {"none", "nan"} => cn_result = PyNone
    /\ value.t = "int" => cn_result = PyFloat(value.n, 0)
    /\ value.t = "float" => cn_result = value
    /\ value.t = "str" =>
           /\ (\A i \in 1..Len(value.s) : value.s[i] \notin Digits) => cn_result = PyNone
           /\ LiteralStarts(NormalizeNumericText(value.s)) = {} => cn_result = PyNone
           /\ LiteralStarts(NormalizeNumericText(value.s)) # {} =>
                  cn_result = FloatOfMatch(FirstNumber(NormalizeNumericText(value.s)))

\* C7: clean_numeric_value never raises; null and NaN give null, a number gives the
\* same number as a float, a string gives the first signed decimal number of its
\* normalised text, and null when it holds no digit.
C7_CleanNumericNeverRaises ==
    cn_result # Pending => (cn_result # Raised /\ CleanNumericAsStated)

\* C8: standardize_nutrition returns, for every input and source tag, a mapping with
\* exactly the nine canonical keys, each value a float or null.
C8_NineKeysAlways ==
    sn_result # NotRun =>
        /\ sn_result.status = "returned"
        /\ DOMAIN sn_result.val = NutritionKeys
        /\ \A k \in NutritionKeys : sn_result.val[k].t \in {"float", "none"}

\* C9: {"valor_energetico_kj": "1.580", "valor_energetico_kcal": "375"} with source
\* "alcampo" gives energia_kj = 1580.0, energia_kcal = 375.0 and the other keys null.
C9_ThousandsSeparator ==
    (/\ nutrition_dict = ObjDict([valor_energetico_kj |-> PyStr(<<"1", ".", "5", "8", "0">>),
                                  valor_energetico_kcal |-> PyStr(<<"3", "7", "5">>)])
     /\ source = "alcampo"
     /\ sn_result # NotRun)
    => sn_result = Ret([DEFAULT_NUTRITION EXCEPT !["energia_kj"] = PyFloat(1580, 0),
                                                 !["energia_kcal"] = PyFloat(375, 0)])

\* the nutrient keys populated before the zero check
Populated(pre) == {k \in DOMAIN pre : pre[k].t # "none"}

\* C10: when at least one value is populated and every populated value is 0.0 the
\* result has all nine keys null; when some populated value is non-zero the result is
\* the mapped record unchanged, zeros included.
C10_ZeroPlaceholderReset ==
    (sn_result.status = "returned" /\ Truthy(nutrition_dict)) =>
        /\ (/\ Populated(MapNutrition(nutrition_dict, source).val) # {}
            /\ \A k \in Populated(MapNutrition(nutrition_dict, source).val) :
                   MapNutrition(nutrition_dict, source).val[k].n = 0)
           => \A k \in NutritionKeys : sn_result.val[k] = PyNone
        /\ (\E k \in Populated(MapNutrition(nutrition_dict, source).val) :
                MapNutrition(nutrition_dict, source).val[k].n # 0)
           => sn_result.val = MapNutrition(nutrition_dict, source).val

\* two populated values, both 0.0, and a result with every key null
C10_Witness ==
    /\ sn_result.status = "returned" /\ Truthy(nutrition_dict)
    /\ Cardinality(Populated(MapNutrition(nutrition_dict, source).val)) = 2
    /\ \A k \in Populated(MapNutrition(nutrition_dict, source).val) :
           MapNutrition(nutrition_dict, source).val[k].n = 0
    /\ \A k \in NutritionKeys : sn_result.val[k] = PyNone

\* s[i..j] is a run of figure characters followed, after optional blanks, by unit
PrecedesUnit(s, unit, i, j) ==
    /\ \A m \in i..j : s[m] \in NumberChars
    /\ \E k \in j..Len(s) :
           /\ \A m \in (j + 1)..k : s[m] \in Whitespace
           /\ StartsAt(s, unit, k + 1)

\* the figure preceding unit in text s, read as a number; null when s has no figure
\* followed by unit, or the characters before unit hold no digit
FigureBefore(s, unit) ==
    LET starts == {i \in 1..Len(s) : \E j \in i..Len(s) : PrecedesUnit(s, unit, i, j)}
        i == CHOOSE a \in starts : \A b \in starts : a <= b
        j == CHOOSE a \in i..Len(s) : PrecedesUnit(s, unit, i, a)
        text == [m \in 1..(j - i + 1) |-> IF s[i + m - 1] = "," THEN "." ELSE s[i + m - 1]]
    IN  IF starts = {} THEN PyNone
        ELSE IF LiteralStarts(text) = {} THEN PyNone
        ELSE FloatOfMatch(FirstNumber(text))

\* standardize_nutrition returned for a dict whose 'energia' is a non-empty string
EnergyCase ==
    /\ sn_result.status = "returned"
    /\ nutrition_dict.t = "dict"
    /\ "energia" \in DOMAIN nutrition_dict.d
    /\ nutrition_dict.d["energia"].t = "str"
    /\ nutrition_dict.d["energia"].s # <<>>

RangoDePeso == <<"r", "a", "n", "g", "o", " ", "d", "e", " ", "p", "e", "s", "o">>

\* C12: for every free-text input parse_weight_volume raises nothing and returns null
\* or a pair whose unit is g or ml; "1 kg" gives [1000.0, "g"] and "50 cl" gives
\* [500.0, "ml"]; text containing "rango de peso", and text that does not begin with
\* a figure, give null.
C12_UnitAlwaysGramOrMl ==
    (wv_result # NotRun /\ weight_str.t = "str") =>
        /\ wv_result.status = "returned"
        /\ \/ wv_result.val = PyNone
           \/ wv_result.val.t = "pair" /\ wv_result.val.s \in {<<"g">>, <<"m", "l">>}
        /\ weight_str.s = <<"1", " ", "k", "g">>
               => wv_result.val = PyPair(PyFloat(1000, 0), <<"g">>)
        /\ weight_str.s = <<"5", "0", " ", "c", "l">>
               => wv_result.val = PyPair(PyFloat(500, 0), <<"m", "l">>)
        /\ (\E i \in 1..Len(weight_str.s) : StartsAt(Lower(weight_str.s), RangoDePeso, i))
               => wv_result.val = PyNone
        /\ (Strip(weight_str.s) = <<>> \/ Strip(weight_str.s)[1] \notin NumberChars)
               => wv_result.val = PyNone

\* the candidates of row r that are columns of the table and hold a non-null value
Holding(r) ==
    {k \in 1..Len(possible_cols) :
        possible_cols[k] \in df.columns /\ ~IsNa(df.rows[r][possible_cols[k]])}

\* C13: when safe_consolidate_columns returns, each row holds the value of the first
\* candidate, in list order, that is a column of the table and non-null in that row,
\* and is null exactly when there is no such candidate.
C13_FirstNonNullWins ==
    col = Len(possible_cols) =>
        /\ Len(sc_result) = Len(df.rows)
        /\ \A r \in 1..Len(df.rows) :
               /\ Holding(r) = {} => IsNa(sc_result[r])
               /\ \A k \in Holding(r) :
                      (\A j \in Holding(r) : k <= j)
                          => sc_result[r] = df.rows[r][possible_cols[k]]

\* a row whose first candidate is null and whose second holds 5, and a row where both
\* hold different values and the first one was kept
C13_Witness ==
    /\ col = Len(possible_cols) /\ col >= 2
    /\ \E r \in 1..Len(df.rows) :
           /\ Holding(r) = {2}
           /\ sc_result[r] = PyFloat(5, 0)
    /\ \E r \in 1..Len(df.rows) :
           /\ {1, 2} \subseteq Holding(r)
           /\ df.rows[r][possible_cols[1]] # df.rows[r][possible_cols[2]]
           /\ sc_result[r] = df.rows[r][possible_cols[1]]

\* impute_missing_values has returned
ImputeDone == imp_col = Len(NUTRITION_COLS) + 1

NutrientColumns(table) == {NUTRITION_COLS[i] : i \in 1..Len(NUTRITION_COLS)} \cap table.columns

\* the value of rank k (1 = smallest) among the cells of column c of the input table
\* in the rows of the set rows
RankedValue(c, rows, k) ==
    LET r == CHOOSE a \in rows :
                 /\ Cardinality({b \in rows : ~FloatLeq(df0.rows[a][c], df0.rows[b][c])}) < k
                 /\ Cardinality({b \in rows : FloatLeq(df0.rows[b][c], df0.rows[a][c])}) >= k
    IN  df0.rows[r][c]

\* the median of column c of the input table over the rows of the non-empty set rows
MedianOfInput(c, rows) ==
    IF Cardinality(rows) % 2 = 1
    THEN RankedValue(c, rows, (Cardinality(rows) + 1) \div 2)
    ELSE FloatMean(RankedValue(c, rows, Cardinality(rows) \div 2),
                   RankedValue(c, rows, Cardinality(rows) \div 2 + 1))

\* rows of the input table with a value in column c
Valued(c) == {r \in 1..Len(df0.rows) : ~IsNa(df0.rows[r][c])}

\* rows of the input table with the source tag of row r
SameSource(r) == {i \in 1..Len(df0.rows) : df0.rows[i]["source"] = df0.rows[r]["source"]}

\* C14: after impute_missing_values each entry that was null in a nutrient column, in
\* a row with a source tag, holds the median of the non-null values of that column in
\* the rows of the same source; when the source has none, the median of the column
\* over all sources; when the whole column is null, 0.0.
C14_MedianBySourceThenGlobal ==
    ImputeDone =>
        \A c \in NutrientColumns(df0) : \A r \in 1..Len(df0.rows) :
            (IsNa(df0.rows[r][c]) /\ ~IsNa(df0.rows[r]["source"])) =>
                df.rows[r][c] =
                    IF SameSource(r) \cap Valued(c) # {}
                    THEN MedianOfInput(c, SameSource(r) \cap Valued(c))
                    ELSE IF Valued(c) # {} THEN MedianOfInput(c, Valued(c))
                    ELSE PyFloat(0, 0)

\* the table reduced to the columns keep
Project(table, keep) ==
    [columns |-> table.columns \cap keep,
     rows |-> [r \in 1..Len(table.rows) |->
                  [c \in table.columns \cap keep |-> table.rows[r][c]]]]

\* C15: impute_missing_values keeps the rows, their order and the columns; an entry
\* of a column that is not a nutrient column, and an entry that was non-null, keeps its
\* value; and what a nutrient column holds at the end is what imputing the table
\* reduced to that column and the source column gives.
C15_OnlyNullNutrientEntriesChange ==
    /\ df.columns = df0.columns
    /\ Len(df.rows) = Len(df0.rows)
    /\ \A r \in 1..Len(df0.rows) : \A c \in df0.columns :
           (c \notin NutrientColumns(df0) \/ ~IsNa(df0.rows[r][c]))
               => df.rows[r][c] = df0.rows[r][c]
    /\ ImputeDone =>
           \A c \in NutrientColumns(df0) : \A r \in 1..Len(df0.rows) :
               df.rows[r][c] =
                   impute_missing_values(Project(df0, {"source", c})).rows[r][c]

\* a null energy entry was filled in a table whose other nutrient column holds
\* values and nulls, next to an entry that was not null
C15_Witness ==
    /\ ImputeDone
    /\ \E r \in 1..Len(df0.rows) :
           IsNa(df0.rows[r]["energia_kcal"]) /\ ~IsNa(df.rows[r]["energia_kcal"])
    /\ \E r \in 1..Len(df0.rows) : ~IsNa(df0.rows[r]["energia_kcal"])
    /\ \E r \in 1..Len(df0.rows) :
           IsNa(df0.rows[r]["sal"]) /\ ~IsNa(df.rows[r]["sal"])
    /\ \E r \in 1..Len(df0.rows) : IsNa(df.rows[r]["brand"])

\* C19: calculate_nutriscore returns a value in [0, 100] for every row, rows with
\* extreme or negative values and rows whose values are all null included.
C19_ScoreInRange ==
    ns_result # Pending =>
        /\ ns_result.t \in {"int", "float"}
        /\ FloatLeq(PyFloat(0, 0), ns_result)
        /\ FloatLeq(ns_result, PyFloat(100, 0))

\* energia_kcal = 5000: the terms sum to a negative score and 0 is returned
C19_Witness ==
    /\ ns_result # Pending
    /\ row["energia_kcal"] = PyFloat(5000, 0)
    /\ ~FloatLeq(PyFloat(0, 0), score)
    /\ ns_result.n = 0 /\ ns_result.t \in {"int", "float"}

\* the value of cell v in thousandths
Milli(v) == v.n * Pow10(3 - v.e)

\* what column k contributes, in thousandths: (value - limit) * rate / 1000 when the
\* value is non-null and above the limit (value and limit in thousandths), else 0
MilliTerm(k, limit, rate) ==
    IF ~IsNa(row[k]) /\ Milli(row[k]) > limit
    THEN ((Milli(row[k]) - limit) * rate) \div 1000
    ELSE 0

\* C20: before clamping the score is 100 - (kcal-400)/10 - (fat-20)*2 -
\* (saturated-5)*3 - (sugars-15)*2 - (salt-1.5)*10 + (fibre-6)*2 + (protein-10)*1.5,
\* each term counted only when its value is non-null and above its threshold; kcal
\* 500 with salt 1.5 gives 90.0 and fat 30 with saturated fat 10 gives 65.0.
C20_ScoreFormula ==
    score # Pending =>
        /\ score = PyFloat(100000
                           - MilliTerm("energia_kcal", 400000, 100)
                           - MilliTerm("grasas_totales", 20000, 2000)
                           - MilliTerm("grasas_saturadas", 5000, 3000)
                           - MilliTerm("azucares", 15000, 2000)
                           - MilliTerm("sal", 1500, 10000)
                           + MilliTerm("fibra", 6000, 2000)
                           + MilliTerm("proteinas", 10000, 1500), 3)
        /\ (/\ row["energia_kcal"] = PyFloat(500, 0) /\ row["sal"] = PyFloat(15, 1)
            /\ \A k \in ScoreColumns \ {"energia_kcal", "sal"} : row[k] = PyNone)
           => score = PyFloat(90, 0)
        /\ (/\ row["grasas_totales"] = PyFloat(30, 0)
            /\ row["grasas_saturadas"] = PyFloat(10, 0)
            /\ \A k \in ScoreColumns \ {"grasas_totales", "grasas_saturadas"} :
                   row[k] = PyNone)
           => score = PyFloat(65, 0)

\* kcal 500 with salt exactly at its threshold and the rest null: 90.0
C20_Witness ==
    /\ row # <<>>
    /\ row["energia_kcal"] = PyFloat(500, 0) /\ row["sal"] = PyFloat(15, 1)
    /\ \A k \in ScoreColumns \ {"energia_kcal", "sal"} : row[k] = PyNone
    /\ score = PyFloat(90, 0)

\* the place of a stage in the stated order
StageRank(name) ==
    CASE name = "consolidation" -> 1 [] name = "imputation" -> 2 [] name = "filter" -> 3
      [] name = "scoring" -> 4

\* C16: in a run of prepare_ml_features_pipeline on a non-empty table with a source
\* column the stages run in the order consolidation, imputation, filter, scoring:
\* a stage starts only when every stage before it in that order has run, and a run
\* that returns has run all four.
C16_StageOrder ==
    (df0.rows # <<>> /\ "source" \in df0.columns) =>
        /\ \A i \in 1..Len(stages) : StageRank(stages[i]) = i
        /\ pl_pc = "done" => Len(stages) = 4

\* a run that returned a table with rows after the four stages
C16_Witness ==
    /\ pl_pc = "done"
    /\ Len(df0.rows) >= 2 /\ "source" \in df0.columns
    /\ stages = <<"consolidation", "imputation", "filter", "scoring">>
    /\ \E r \in 1..Len(df.rows) : df.rows[r]["score_nutricional"].t \in {"int", "float"}
    /\ \E r \in 1..Len(df0.rows) : IsNa(df0.rows[r]["energia_kcal"])

\* C17: validate_all and each of validate_nutritional_ranges, detect_outliers and
\* validate_consistency leave the table they are given unchanged (same rows, same
\* columns, same values) whatever the report contains, and the table passed to the
\* feature engineering in PreprocessingPipeline.run is the table that left the
\* normalization.
C17_ValidationLeavesTable ==
    /\ dv_pc \in {"call", "ranges", "outliers", "consistency", "return", "validated",
                  "features"} => df = df0
    /\ dv_pc = "features" => fe_df = df0

\* the table reached the feature engineering after a validation that reported range
\* errors and inconsistent products
C17_Witness ==
    /\ dv_pc = "features"
    /\ fe_df = df0
    /\ Len(df0.rows) >= 2
    /\ validation_report.range_validation.products_with_errors > 0
    /\ validation_report.consistency.total_inconsistent_products > 0
    /\ Len(validation_report.consistency.inconsistencies) >= 3

\* the rows of the validated table where non-null column a exceeds non-null column b
Exceeds(a, b) ==
    {r \in 1..Len(df0.rows) :
        /\ a \in df0.columns /\ b \in df0.columns
        /\ df0.rows[r][a].t = "float" /\ df0.rows[r][b].t = "float"
        /\ ~FloatLeq(df0.rows[r][a], df0.rows[r][b])}

\* the kinds of inconsistency the report lists
ReportedTypes ==
    {validation_report.consistency.inconsistencies[i].type :
        i \in 1..Len(validation_report.consistency.inconsistencies)}

TagTable(src) ==
    IF src = "alcampo" THEN ALCAMPO_NUTRITION_MAP ELSE OPENFOOD_NUTRITION_MAP

\* C25: when the source tag is 'alcampo' or 'openfoodfacts', standardize_nutrition
\* maps the input with the table of that tag, whatever keys the input has: every
\* key of that table present in the input gives its cleaned value to the standard
\* key the table names (the energy keys, which the combined 'energia' field may
\* overwrite, aside).
C25_TagSelectsTable ==
    (/\ sn_result.status = "returned" /\ Truthy(nutrition_dict)
     /\ nutrition_dict.t = "dict" /\ source \in {"alcampo", "openfoodfacts"}) =>
        \A k \in DOMAIN TagTable(source) \cap DOMAIN nutrition_dict.d :
            TagTable(source)[k] \notin {"energia_kj", "energia_kcal"} =>
                MapNutrition(nutrition_dict, source).val[TagTable(source)[k]]
                    = clean_numeric_value(nutrition_dict.d[k])

\* the second source is a list of records wrapped under 'products'
WrappedList ==
    /\ openfood_data.t = "dict" /\ "products" \in DOMAIN openfood_data.d
    /\ openfood_data.d["products"].t = "list"

\* C26: for every list L of OpenFoodFacts records and every first source A, the call
\* with {"products": L} as second source returns the list that the call with L
\* returns: the same records accepted, in the same order, and no exception.
C26_WrappedPayloadSameResult ==
    WrappedList =>
        /\ pc # "raised"
        /\ pc = "done" =>
               Ret(unified_products)
                   = unify_products_from_sources(alcampo_data, openfood_data.d["products"])

\* a finished run on a wrapped list of MaxRecs records of which some were accepted
\* and some were not
C26_Witness ==
    /\ pc = "done" /\ WrappedList
    /\ Len(openfood_data.d["products"].items) = MaxRecs
    /\ unify_products_from_sources(DataNone, openfood_data.d["products"]).val # <<>>
    /\ Len(unify_products_from_sources(DataNone, openfood_data.d["products"]).val) < MaxRecs
    /\ Len(unified_products) >
           Len(unify_products_from_sources(DataNone, openfood_data.d["products"]).val)

\* the table with its rows in the opposite order
ReverseRows(table) ==
    [table EXCEPT !.rows = [r \in 1..Len(table.rows) |->
                               table.rows[Len(table.rows) + 1 - r]]]

\* C29: the result of impute_missing_values does not depend on the order of the
\* rows: imputing the table with its rows reversed gives the reversed result, and
\* the value written into the rows of a source without a value in a column is the
\* median of the values the column held before the imputation began.
C29_RowOrderIndependent ==
    ImputeDone =>
        /\ impute_missing_values(ReverseRows(df0)) = ReverseRows(df)
        /\ \A c \in NutrientColumns(df0) : \A r \in 1..Len(df0.rows) :
               (/\ ~IsNa(df0.rows[r]["source"])
                /\ SameSource(r) \cap Valued(c) = {} /\ Valued(c) # {}) =>
                   df.rows[r][c] = MedianOfInput(c, Valued(c))

\* every row of the table given to the pipeline has a source tag
AllTagged ==
    /\ df0.rows # <<>> /\ "source" \in df0.columns
    /\ \A r \in 1..Len(df0.rows) : ~IsNa(df0.rows[r]["source"])

\* C28: when every row has a non-null source tag, no nutrient column of the table
\* holds a null once impute_missing_values has returned, the filter that follows
\* it in prepare_ml_features_pipeline removes no row, and the table the pipeline
\* returns has as many rows as the table it was given.
C28_NoRowLostAfterImputation ==
    AllTagged =>
        /\ pl_pc = "filter" =>
               \A c \in NutrientColumns(df) : \A r \in 1..Len(df.rows) :
                   ~IsNa(df.rows[r][c])
        /\ pl_pc \in {"score", "select", "done"} => Len(df.rows) = Len(df0.rows)

\* a returned run on tagged rows of which one had no nutrient value at all
C28_Witness ==
    /\ AllTagged /\ pl_pc = "done"
    /\ Len(df0.rows) >= 2 /\ Len(df.rows) = Len(df0.rows)
    /\ \E r \in 1..Len(df0.rows) :
           \A c \in NutrientColumns(df0) : IsNa(df0.rows[r][c])

\* the call named fn has been made
Called(fn) == \E i \in 1..Len(calls) : calls[i] = fn

\* the fatal conditions: an input file is missing, or both loaders returned and the
\* two together gave no product
FatalInput ==
    \/ ~main_env.alcampo_exists \/ ~main_env.openfood_exists
    \/ (~main_env.load_raises /\ main_env.alcampo_count + main_env.openfood_count = 0)

\* C24: in main(), when an input file is missing or the loaders together return no
\* product, save_to_csv is never called and the run ends with a non-zero exit
\* status; save_to_csv is called only after prepare_ml_features_pipeline has
\* returned without raising.
C24_FatalRunWritesNothing ==
    main_pc # "idle" =>
        /\ FatalInput =>
               /\ ~Called("save_to_csv")
               /\ main_pc # "exited" => main_pc \in {"start", "load"}
               /\ main_pc = "exited" => exit_status = 1
        /\ Called("save_to_csv") =>
               /\ ~main_env.pipeline_raises
               /\ \E i \in 1..Len(calls) :
                      /\ calls[i] = "prepare_ml_features_pipeline"
                      /\ \A j \in 1..i : calls[j] # "save_to_csv"

\* both files exist, the loaders returned nothing: the run exited with status 1
\* right after load_products
C24_Witness ==
    /\ main_pc = "exited" /\ exit_status = 1
    /\ main_env.alcampo_exists /\ main_env.openfood_exists /\ ~main_env.load_raises
    /\ main_env.alcampo_count + main_env.openfood_count = 0
    /\ calls = <<"load_products">>

\* the url of row r of the table given to remove_duplicates
UrlOf(r) == df0.rows[r]["url"]

\* two rows of the input have the same url (missing urls count as one url)
SameUrl(q, r) == (IsNa(UrlOf(q)) /\ IsNa(UrlOf(r))) \/ UrlOf(q) = UrlOf(r)

\* C27: after remove_duplicates on a table with a url column no two remaining rows
\* have the same url; the remaining rows are rows of the input in their input order,
\* each the first occurrence of its url; and a row whose url occurs once in the
\* input remains.
C27_FirstOccurrenceKept ==
    (cl_pc = "deduplicated" /\ "url" \in df0.columns) =>
        /\ \A i, j \in 1..Len(df.rows) :
               i # j => ~SameKey(df.rows[i]["url"], df.rows[j]["url"])
        /\ \E f \in [1..Len(df.rows) -> 1..Len(df0.rows)] :
               /\ \A i, j \in 1..Len(df.rows) : i < j => f[i] < f[j]
               /\ \A i \in 1..Len(df.rows) :
                      /\ df.rows[i] = df0.rows[f[i]]
                      /\ \A q \in 1..(f[i] - 1) : ~SameUrl(q, f[i])
        /\ \A r \in 1..Len(df0.rows) :
               (\A q \in 1..Len(df0.rows) : q # r => ~SameUrl(q, r)) =>
                   \E i \in 1..Len(df.rows) : df.rows[i] = df0.rows[r]

\* a url held by two rows with different names: the first one remained
C27_Witness ==
    /\ cl_pc = "deduplicated" /\ "url" \in df0.columns
    /\ Len(df0.rows) = 2 /\ Len(df.rows) = 1
    /\ df0.rows[1]["url"] = df0.rows[2]["url"] /\ df0.rows[1]["url"].t = "str"
    /\ df0.rows[1] # df0.rows[2]
    /\ df.rows[1] = df0.rows[1]

\* clean_all is past its nutrition filter
PastFilters == cl_pc \in {"text", "weight", "numeric", "return", "done"}

\* C30: in the report of clean_all, initial_count - final_count is the sum of
\* empty_rows_removed, duplicates_removed and insufficient_nutrition_removed, and
\* final_count is the number of rows of the table returned; the text, weight/volume
\* and numeric steps after the nutrition filter remove no row.
C30_ReportAddsUp ==
    /\ PastFilters =>
           Len(df.rows) = cleaning_report.initial_count
                            - cleaning_report.empty_rows_removed
                            - cleaning_report.duplicates_removed
                            - cleaning_report.insufficient_nutrition_removed
    /\ cl_pc = "done" =>
           /\ cleaning_report.initial_count = Len(df0.rows)
           /\ cleaning_report.final_count = Len(df.rows)
           /\ cleaning_report.initial_count - cleaning_report.final_count
                  = cleaning_report.empty_rows_removed
                    + cleaning_report.duplicates_removed
                    + cleaning_report.insufficient_nutrition_removed

\* a finished clean_all that removed a row at the nutrition filter and rewrote cells
\* of a row it kept
C30_Witness ==
    /\ cl_pc = "done"
    /\ cleaning_report.insufficient_nutrition_removed > 0
    /\ cleaning_report.final_count > 0
    /\ \E r \in 1..Len(df.rows) : \A q \in 1..Len(df0.rows) : df.rows[r] # df0.rows[q]

\* the columns whose values create_all_features must leave alone
InputColumns ==
    {"energia_kcal", "grasas_totales", "grasas_saturadas", "carbohidratos", "azucares",
     "proteinas", "sal", "fibra", "alergenos", "certificaciones"}

\* C21: create_all_features only adds columns: at every point of the call the table
\* has the rows it was given, in their order, every column it was given, and in the
\* nutrient columns and in alergenos and certificaciones the values it was given.
C21_OnlyAddsColumns ==
    fe_pc # "idle" =>
        /\ Len(df.rows) = Len(df0.rows)
        /\ df0.columns \subseteq df.columns
        /\ \A r \in 1..Len(df0.rows) : \A c \in InputColumns \cap df0.columns :
               df.rows[r][c] = df0.rows[r][c]

\* create_all_features has returned a table of two different products with new
\* ratio, indicator, aggregate and category columns
C21_Witness ==
    /\ fe_pc = "call" /\ fe_call = 1
    /\ Len(df0.rows) = 2 /\ df0.rows[1] # df0.rows[2]
    /\ {"ratio_grasas_saturadas", "tiene_fibra", "suma_macronutrientes",
         "perfil_macronutrientes"} \subseteq df.columns \ df0.columns
    /\ df.rows[1]["ratio_grasas_saturadas"].t = "float"

\* C22: create_all_features applied to its own result returns that result: the
\* same columns, and in every row the same value in every column.
C22_Idempotent == fe_pc = "done" => df = fe_df

\* the second application has returned, on a table where the first one computed a
\* ratio and a sum and left a ratio cell of a zero denominator empty
C22_Witness ==
    /\ fe_pc = "done" /\ fe_call = 2
    /\ "ratio_azucares" \in df.columns /\ "suma_macronutrientes" \in df.columns
    /\ \E r \in 1..Len(df.rows) :
           /\ fe_df.rows[r]["ratio_azucares"].t = "float"
           /\ Units(fe_df.rows[r]["suma_macronutrientes"]) > 0
    /\ \E r \in 1..Len(df.rows) : IsNa(fe_df.rows[r]["ratio_azucares"])

\* kcal lies in the half-open range [low, high)
InRange(kcal, low, high) ==
    /\ ~IsNa(kcal)
    /\ FloatLeq(PyFloat(low, 0), kcal)
    /\ ~FloatLeq(PyFloat(high, 0), kcal)

\* C23: the calorie category of a row is 'desconocido' exactly when energia_kcal is
\* null, 'bajo' exactly when 0 <= kcal < 100, 'medio' exactly when 100 <= kcal < 300,
\* 'alto' exactly when 300 <= kcal < 500 and 'muy_alto' exactly when kcal >= 500.
C23_CalorieCategory ==
    "categoria_calorica" \in df.columns =>
        \A r \in 1..Len(df.rows) :
            /\ df.rows[r]["categoria_calorica"] = Label("desconocido")
                   <=> IsNa(df.rows[r]["energia_kcal"])
            /\ df.rows[r]["categoria_calorica"] = Label("bajo")
                   <=> InRange(df.rows[r]["energia_kcal"], 0, 100)
            /\ df.rows[r]["categoria_calorica"] = Label("medio")
                   <=> InRange(df.rows[r]["energia_kcal"], 100, 300)
            /\ df.rows[r]["categoria_calorica"] = Label("alto")
                   <=> InRange(df.rows[r]["energia_kcal"], 300, 500)
            /\ df.rows[r]["categoria_calorica"] = Label("muy_alto")
                   <=> (/\ ~IsNa(df.rows[r]["energia_kcal"])
                        /\ FloatLeq(PyFloat(500, 0), df.rows[r]["energia_kcal"]))

====
